---- MODULE Spec2Model ----
(***************************************************************************)
(* Cluster Guardian: the signal-to-action control plane.                   *)
(*                                                                         *)
(*   Action Gateway   src/src/k8s_client.py, src/src/redis_client.py       *)
(*   Approvals        src/src/api.py                                       *)
(*   Monitor          src/src/continuous_monitor.py                        *)
(*   Quorum gate      src/src/quorum.py, src/src/quorum_tools.py,          *)
(*                    src/src/agent.py                                     *)
(*   Correlator       src/src/incident_correlator.py, src/src/api.py       *)
(*   Agent loop       src/src/agent.py, src/src/api.py                     *)
(*   Self-Tuner       src/src/self_tuner.py, src/src/redis_client.py       *)
(*   Config store     src/src/config_store.py, src/src/config.py           *)
(*   Classifier       src/src/escalation_classifier.py                     *)
(*                                                                         *)
(* Time is a discrete wall clock `now`; the 3600 s rate-limit window and   *)
(* the 300 s suppression window are scaled down to a few ticks.            *)
(***************************************************************************)
EXTENDS Integers, Sequences, FiniteSets, TLC

\* ------------------------------------------------------------------------
\* Bounds of the model
\* ------------------------------------------------------------------------
MaxTime == 2
MaxAudit == 2
MaxBudget == 1

\* ------------------------------------------------------------------------
\* Program constants (scaled)
\* ------------------------------------------------------------------------
\* ActionRateLimiter.window_seconds (3600 s in the source), in ticks
window_seconds == 1

\* ------------------------------------------------------------------------
\* Action Gateway: state
\* ------------------------------------------------------------------------
VARIABLES
  now,                  \* wall clock (datetime.now / time.time)
  protected_namespaces, \* settings.protected_namespaces
  require_approval_for, \* settings.require_approval_for
  max_actions,          \* ActionRateLimiter.max_actions
  store_max,            \* config store value of max_actions_per_hour
  actions,              \* ActionRateLimiter.actions (deque of timestamps)
  redis_available,      \* RedisClient.available
  redis_actions,        \* sorted set guardian:rate_limit (scores)
  entries,              \* AuditLog.entries
  redis_audit,          \* the list guardian:audit_log, newest entry first
  pending_approvals,    \* app_state.pending_approvals
  redis_pending,        \* hash guardian:pending_approvals (its values)
  lastListing,          \* what GET /api/v1/approvals returned last
  lastResult            \* what the last gateway call returned and did

settingsVars == <<protected_namespaces, require_approval_for>>
approvalVars == <<pending_approvals, redis_pending, lastListing>>
gwvars == <<now, settingsVars, max_actions, store_max, actions, redis_available, redis_actions, entries, redis_audit, approvalVars, lastResult>>

Namespaces == {"default", "kube-system"}
Names == {"web"}
NodeNames == {"worker-1"}
ReplicaChoices == {0, 2}

\* the namespaced write operations of K8sClient
NamespacedOps == {"restart_pod", "scale_deployment", "rollout_restart", "rollback_deployment", "rollout_restart_statefulset", "delete_failed_job", "delete_pvc"}
NodeOps == {"cordon_node", "drain_node"}
WriteOps == NamespacedOps \cup NodeOps

\* settings.require_approval_for default (config.py)
DefaultApproval == {"delete_pvc", "cordon_node", "drain_node", "scale_to_zero"}
\* settings.protected_namespaces default, restricted to the modelled namespaces
DefaultProtected == {"kube-system"}

\* pods a node may carry (drain_node)
PodUniverse == {[namespace |-> "kube-system", name |-> "coredns", daemonset |-> FALSE], [namespace |-> "default", name |-> "ds-node-exporter", daemonset |-> TRUE], [namespace |-> "default", name |-> "web", daemonset |-> FALSE]}

NoResult == [op |-> "none", namespace |-> "", name |-> "", replicas |-> -1, success |-> FALSE, error |-> "none", requires_approval |-> FALSE, api_calls |-> 0]

Result(op, ns, name, replicas, success, error, approval, calls) == [op |-> op, namespace |-> ns, name |-> name, replicas |-> replicas, success |-> success, error |-> error, requires_approval |-> approval, api_calls |-> calls]

\* ------------------------------------------------------------------------
\* Rate limiter
\* ------------------------------------------------------------------------
\* ActionRateLimiter._refresh_max_actions: the store value replaces
\* max_actions when it is a positive int
RefreshMaxActions == IF store_max > 0 THEN store_max ELSE max_actions

\* ActionRateLimiter._cleanup_old: pop from the left while older than cutoff
RECURSIVE CleanupOld(_)
CleanupOld(q) == IF q # <<>> /\ Head(q) < now - window_seconds THEN CleanupOld(Tail(q)) ELSE q

\* RedisClient.get_actions_in_window: zremrangebyscore(-inf, cutoff) drops
\* scores <= cutoff, the count is what remains at or after cutoff
RedisPrune(z) == SelectSeq(z, LAMBDA ts : ts > now - window_seconds)

\* ActionRateLimiter.can_act: the verdict. rd is the outcome of the Redis
\* read; a failed read is caught inside get_actions_in_window, which then
\* returns 0
CanAct(rd) == IF redis_available THEN (IF rd = "ok" THEN Len(RedisPrune(redis_actions)) ELSE 0) < RefreshMaxActions ELSE Len(CleanupOld(actions)) < RefreshMaxActions

\* the state can_act leaves behind, whatever the verdict
CanActEffect(rd) ==
  /\ max_actions' = RefreshMaxActions
  /\ redis_actions' = IF redis_available /\ rd = "ok" THEN RedisPrune(redis_actions) ELSE redis_actions

\* ActionRateLimiter.record_action on the deque can_act has cleaned
RecordActionLocal == Append(CleanupOld(actions), now)
RecordActionRedis(rd) == LET z == IF redis_available /\ rd = "ok" THEN RedisPrune(redis_actions) ELSE redis_actions IN IF redis_available THEN Append(z, now) ELSE z

\* ------------------------------------------------------------------------
\* Audit log
\* ------------------------------------------------------------------------
Entry(action, target, ns, result) == [timestamp |-> now, action |-> action, target |-> target, namespace |-> ns, result |-> result]

\* AuditLog.log: append to the in-memory list
AuditLogLocal(e) == Append(entries, e)

\* redis_client.AUDIT_LOG_MAX_LEN (500 in the source), scaled
AUDIT_LOG_MAX_LEN == 2

\* ltrim(key, 0, stop): keep the elements at indices 0..stop
LTrim(list, stop) == SubSeq(list, 1, IF Len(list) < stop + 1 THEN Len(list) ELSE stop + 1)

\* RedisClient.append_audit_entry: lpush, then ltrim to the last 500; does
\* nothing without Redis, and a raised error is logged and dropped
append_audit_entry(entry, wr) ==
  IF redis_available /\ wr = "ok" THEN LTrim(<<entry>> \o redis_audit, AUDIT_LOG_MAX_LEN - 1)
  ELSE redis_audit

\* K8sClient._check_namespace_protected, looking the namespace up in the
\* wrong settings list
CheckNamespaceWrongList(ns) == ns \in require_approval_for

\* K8sClient._check_namespace_protected
_check_namespace_protected(ns) == ns \in protected_namespaces

\* ------------------------------------------------------------------------
\* Action Gateway: the outcomes of one write operation
\* ------------------------------------------------------------------------
RedisReads == {"ok", "fail"}
\* a Redis read happens only while the client is available
RedisOutcomes == IF redis_available THEN RedisReads ELSE {"ok"}
\* the ReplicaSets rollback_deployment may find owned by the deployment
RevisionCounts == {1, 2}

\* return {"success": False, "error": "Namespace ... is protected"}
RejectProtected(op, ns, name, replicas) ==
  /\ lastResult' = Result(op, ns, name, replicas, FALSE, "protected", FALSE, 0)
  /\ UNCHANGED <<now, settingsVars, max_actions, store_max, actions, redis_available, redis_actions, entries, redis_audit, approvalVars>>

\* return {..., "requires_approval": True} before the rate limiter was asked
RejectApprovalFirst(op, ns, name, replicas) ==
  /\ lastResult' = Result(op, ns, name, replicas, FALSE, "approval", TRUE, 0)
  /\ UNCHANGED <<now, settingsVars, max_actions, store_max, actions, redis_available, redis_actions, entries, redis_audit, approvalVars>>

\* return {..., "requires_approval": True} after can_act said yes
RejectApprovalAfterRate(op, ns, name, replicas, rd) ==
  /\ CanActEffect(rd)
  /\ actions' = CleanupOld(actions)
  /\ lastResult' = Result(op, ns, name, replicas, FALSE, "approval", TRUE, 0)
  /\ UNCHANGED <<now, settingsVars, store_max, redis_available, entries, redis_audit, approvalVars>>

\* return {"success": False, "error": "Rate limit exceeded"}
RejectRateLimit(op, ns, name, replicas, rd) ==
  /\ CanActEffect(rd)
  /\ actions' = CleanupOld(actions)
  /\ lastResult' = Result(op, ns, name, replicas, FALSE, "rate_limit", FALSE, 0)
  /\ UNCHANGED <<now, settingsVars, store_max, redis_available, entries, redis_audit, approvalVars>>

\* the try branch: API call, record_action, audit_log.log(result="success")
ExecuteSuccess(op, ns, name, replicas, rd, calls) ==
  /\ max_actions' = RefreshMaxActions
  /\ actions' = RecordActionLocal
  /\ redis_actions' = RecordActionRedis(rd)
  /\ entries' = AuditLogLocal(Entry(op, name, ns, "success"))
  /\ redis_audit' = append_audit_entry(Entry(op, name, ns, "success"), rd)
  /\ lastResult' = Result(op, ns, name, replicas, TRUE, "none", FALSE, calls)
  /\ UNCHANGED <<now, settingsVars, store_max, redis_available, approvalVars>>

\* except ApiException: audit_log.log(result="failed"), no record_action
ExecuteFailed(op, ns, name, replicas, rd, calls) ==
  /\ CanActEffect(rd)
  /\ actions' = CleanupOld(actions)
  /\ entries' = AuditLogLocal(Entry(op, name, ns, "failed"))
  /\ redis_audit' = append_audit_entry(Entry(op, name, ns, "failed"), rd)
  /\ lastResult' = Result(op, ns, name, replicas, FALSE, "api_error", FALSE, calls)
  /\ UNCHANGED <<now, settingsVars, store_max, redis_available, approvalVars>>

\* an error return after can_act that writes no audit entry
ExecuteErrorUnlogged(op, ns, name, replicas, rd, err, calls) ==
  /\ CanActEffect(rd)
  /\ actions' = CleanupOld(actions)
  /\ lastResult' = Result(op, ns, name, replicas, FALSE, err, FALSE, calls)
  /\ UNCHANGED <<now, settingsVars, store_max, redis_available, entries, redis_audit, approvalVars>>

\* the shape shared by restart_pod, rollout_restart,
\* rollout_restart_statefulset and delete_failed_job:
\* namespace check, rate-limit check, API call, record + audit
StandardWrite(op, ns, name, rd) ==
  IF _check_namespace_protected(ns) THEN RejectProtected(op, ns, name, -1)
  ELSE IF ~CanAct(rd) THEN RejectRateLimit(op, ns, name, -1, rd)
  ELSE \/ ExecuteSuccess(op, ns, name, -1, rd, 1)
       \/ ExecuteFailed(op, ns, name, -1, rd, 1)

\* ------------------------------------------------------------------------
\* Action Gateway: write operations (K8sClient)
\* ------------------------------------------------------------------------
\* the agent's tool awaits the gateway: result = await k8s.restart_pod(...);
\* no result of an earlier call is still with the gateway's caller
CallerIdle == lastResult = NoResult

restart_pod(ns, name, rd) ==
  /\ CallerIdle
  /\ Len(entries) < MaxAudit
  /\ StandardWrite("restart_pod", ns, name, rd)

scale_deployment(ns, name, replicas, rd) ==
  /\ CallerIdle
  /\ Len(entries) < MaxAudit
  /\ IF _check_namespace_protected(ns) THEN RejectProtected("scale_deployment", ns, name, replicas)
     ELSE IF ~CanAct(rd) THEN RejectRateLimit("scale_deployment", ns, name, replicas, rd)
     ELSE IF replicas = 0 /\ "scale_to_zero" \in require_approval_for THEN RejectApprovalAfterRate("scale_deployment", ns, name, replicas, rd)
     ELSE \/ ExecuteSuccess("scale_deployment", ns, name, replicas, rd, 1)
          \/ ExecuteFailed("scale_deployment", ns, name, replicas, rd, 1)

rollout_restart(ns, name, rd) ==
  /\ CallerIdle
  /\ Len(entries) < MaxAudit
  /\ StandardWrite("rollout_restart", ns, name, rd)

\* the reads (deployment, ReplicaSets) or the patch may raise ApiException;
\* with fewer than two owned ReplicaSets the operation returns an error
\* without patching and without an audit entry
rollback_deployment(ns, name, rd) ==
  /\ CallerIdle
  /\ Len(entries) < MaxAudit
  /\ IF _check_namespace_protected(ns) THEN RejectProtected("rollback_deployment", ns, name, -1)
     ELSE IF ~CanAct(rd) THEN RejectRateLimit("rollback_deployment", ns, name, -1, rd)
     ELSE \/ ExecuteFailed("rollback_deployment", ns, name, -1, rd, 0)
          \/ \E revisions \in RevisionCounts :
               IF revisions < 2 THEN ExecuteErrorUnlogged("rollback_deployment", ns, name, -1, rd, "no_revision", 0)
               ELSE \/ ExecuteSuccess("rollback_deployment", ns, name, -1, rd, 1)
                    \/ ExecuteFailed("rollback_deployment", ns, name, -1, rd, 1)

rollout_restart_statefulset(ns, name, rd) ==
  /\ CallerIdle
  /\ Len(entries) < MaxAudit
  /\ StandardWrite("rollout_restart_statefulset", ns, name, rd)

delete_failed_job(ns, name, rd) ==
  /\ CallerIdle
  /\ Len(entries) < MaxAudit
  /\ StandardWrite("delete_failed_job", ns, name, rd)

delete_pvc(ns, name, rd) ==
  /\ CallerIdle
  /\ Len(entries) < MaxAudit
  /\ IF _check_namespace_protected(ns) THEN RejectProtected("delete_pvc", ns, name, -1)
     ELSE IF "delete_pvc" \in require_approval_for THEN RejectApprovalFirst("delete_pvc", ns, name, -1)
     ELSE IF ~CanAct(rd) THEN RejectRateLimit("delete_pvc", ns, name, -1, rd)
     ELSE \/ ExecuteSuccess("delete_pvc", ns, name, -1, rd, 1)
          \/ ExecuteErrorUnlogged("delete_pvc", ns, name, -1, rd, "api_error", 1)

cordon_node(name, rd) ==
  /\ CallerIdle
  /\ Len(entries) < MaxAudit
  /\ IF ~CanAct(rd) THEN RejectRateLimit("cordon_node", "cluster", name, -1, rd)
     ELSE IF "cordon_node" \in require_approval_for THEN RejectApprovalAfterRate("cordon_node", "cluster", name, -1, rd)
     ELSE \/ ExecuteSuccess("cordon_node", "cluster", name, -1, rd, 1)
          \/ ExecuteFailed("cordon_node", "cluster", name, -1, rd, 1)

\* drain_node: the pods of the node that get an eviction call
DrainAttempted(pods) == {p \in pods : p.namespace \notin protected_namespaces /\ ~p.daemonset}

\* patch_node (cordon) first, then one eviction per remaining pod; a failed
\* eviction is caught per pod, a failed patch_node fails the operation
drain_node_pods(name, rd, pods) ==
  /\ CallerIdle
  /\ Len(entries) < MaxAudit
  /\ IF ~CanAct(rd) THEN RejectRateLimit("drain_node", "cluster", name, -1, rd)
     ELSE IF "drain_node" \in require_approval_for THEN RejectApprovalAfterRate("drain_node", "cluster", name, -1, rd)
     ELSE \/ ExecuteFailed("drain_node", "cluster", name, -1, rd, 1)
          \/ ExecuteSuccess("drain_node", "cluster", name, -1, rd, 1 + Cardinality(DrainAttempted(pods)))

drain_node(name, rd) == \E pods \in SUBSET PodUniverse : drain_node_pods(name, rd, pods)

\* ------------------------------------------------------------------------
\* Approvals API (api.py)
\* ------------------------------------------------------------------------
\* GET /api/v1/approvals: refresh from Redis when it holds any, then list
\* the entries whose status is pending
get_approvals ==
  /\ CallerIdle
  /\ pending_approvals' = IF redis_available /\ redis_pending # <<>> THEN redis_pending ELSE pending_approvals
  /\ lastListing' = SelectSeq(pending_approvals', LAMBDA a : a.status = "pending")
  /\ UNCHANGED <<now, settingsVars, max_actions, store_max, actions, redis_available, redis_actions, entries, redis_audit, redis_pending, lastResult>>

\* ------------------------------------------------------------------------
\* Environment of the gateway
\* ------------------------------------------------------------------------
\* the calling tool turns the result dict into its reply and returns
ReturnToCaller ==
  /\ lastResult # NoResult
  /\ lastResult' = NoResult
  /\ UNCHANGED <<now, settingsVars, max_actions, store_max, actions, redis_available, redis_actions, entries, redis_audit, approvalVars>>

\* the wall clock advances
Tick ==
  /\ CallerIdle
  /\ now < MaxTime
  /\ now' = now + 1
  /\ UNCHANGED <<settingsVars, max_actions, store_max, actions, redis_available, redis_actions, entries, redis_audit, approvalVars, lastResult>>

\* an operator writes max_actions_per_hour through the config store
SetMaxActionsPerHour(v) ==
  /\ CallerIdle
  /\ store_max' = v
  /\ UNCHANGED <<now, settingsVars, max_actions, actions, redis_available, redis_actions, entries, redis_audit, approvalVars, lastResult>>

\* ------------------------------------------------------------------------
\* Action Gateway: specification
\* ------------------------------------------------------------------------
ProtectedChoices == {DefaultProtected}
ApprovalChoices == {DefaultApproval, {}}

\* K8sClient.__init__, ActionRateLimiter.__init__, AuditLog.__init__,
\* AppState.__init__. The Redis client is connected (or found unavailable)
\* by the lifespan hook before the gateway is first used.
GatewayInit ==
  /\ now = 0
  /\ protected_namespaces \in ProtectedChoices
  /\ require_approval_for \in ApprovalChoices
  /\ max_actions \in 1..MaxBudget
  /\ store_max = max_actions
  /\ actions = <<>>
  /\ redis_available \in BOOLEAN
  /\ redis_actions = <<>>
  /\ entries = <<>>
  /\ redis_audit = <<>>
  /\ pending_approvals = <<>>
  /\ redis_pending = <<>>
  /\ lastListing = <<>>
  /\ lastResult = NoResult

GatewayNext ==
  \/ Tick
  \/ ReturnToCaller
  \/ \E v \in 1..MaxBudget : SetMaxActionsPerHour(v)
  \/ get_approvals
  \/ \E ns \in Namespaces, name \in Names, rd \in RedisOutcomes : restart_pod(ns, name, rd)
  \/ \E ns \in Namespaces, name \in Names, replicas \in ReplicaChoices, rd \in RedisOutcomes : scale_deployment(ns, name, replicas, rd)
  \/ \E ns \in Namespaces, name \in Names, rd \in RedisOutcomes : rollout_restart(ns, name, rd)
  \/ \E ns \in Namespaces, name \in Names, rd \in RedisOutcomes : rollback_deployment(ns, name, rd)
  \/ \E ns \in Namespaces, name \in Names, rd \in RedisOutcomes : rollout_restart_statefulset(ns, name, rd)
  \/ \E ns \in Namespaces, name \in Names, rd \in RedisOutcomes : delete_failed_job(ns, name, rd)
  \/ \E ns \in Namespaces, name \in Names, rd \in RedisOutcomes : delete_pvc(ns, name, rd)
  \/ \E name \in NodeNames, rd \in RedisOutcomes : cordon_node(name, rd)
  \/ \E name \in NodeNames, rd \in RedisOutcomes : drain_node(name, rd)

\* ------------------------------------------------------------------------
\* Continuous Monitor: anomaly dispatcher (continuous_monitor.py)
\* ------------------------------------------------------------------------
MaxMonitorTime == 5
MaxSignals == 3

\* config.get("anomaly_suppression_window", 300), in ticks
anomaly_suppression_window == 2
\* config.get("anomaly_batch_window", 10), in ticks
anomaly_batch_window == 1

VARIABLES
  anomaly_queue,         \* ContinuousMonitor._anomaly_queue
  seen_keys,             \* ContinuousMonitor._seen_keys: dedupe key -> time
  batch,                 \* _anomaly_dispatcher: local batch
  batch_start,           \* _anomaly_dispatcher: local batch_start
  total_anomalies,       \* ContinuousMonitor._total_anomalies
  suppressed_anomalies,  \* ContinuousMonitor._suppressed_anomalies
  broadcasts,            \* anomaly_detected messages handed to the broadcast callback
  investigations         \* calls of the investigate callback

monvars == <<anomaly_queue, seen_keys, batch, batch_start, total_anomalies, suppressed_anomalies, broadcasts, investigations>>

DedupeKeys == {"k8s_crashloop:default/pod-x/main", "k8s_event:default/Pod/pod-x/BackOff"}

\* AnomalySignal: the fields the dispatcher reads; group is
\* f"{namespace}/{resource}"
Signal(k) == [dedupe_key |-> k, group |-> "default/pod-x"]

\* time.time() of the model's origin is far past the epoch:
\* _seen_keys.get(key, 0.0) is at least a suppression window in the past
EpochZero == 0 - anomaly_suppression_window

\* last_seen = self._seen_keys.get(signal.dedupe_key, 0.0)
LastSeen(k) == IF k \in DOMAIN seen_keys THEN seen_keys[k] ELSE EpochZero

\* the dedupe test taken against the batch window
IsSuppressedBatchWindow(k) == now - LastSeen(k) < anomaly_batch_window

\* if now - last_seen < self._suppression_window: suppressed
IsSuppressed(k) == now - LastSeen(k) < anomaly_suppression_window

\* self._seen_keys[signal.dedupe_key] = now
MarkSeen(k) == [x \in DOMAIN seen_keys \cup {k} |-> IF x = k THEN now ELSE seen_keys[x]]

\* the batch after the dequeued signal was handled; a batched signal keeps
\* the time it reached the dispatcher
BatchAfter(sig) == IF IsSuppressed(sig.dedupe_key) THEN batch ELSE Append(batch, [dedupe_key |-> sig.dedupe_key, group |-> sig.group, arrived |-> now])
BatchStartAfter(sig) == IF ~IsSuppressed(sig.dedupe_key) /\ batch = <<>> THEN now ELSE batch_start

\* if batch and (time.time() - batch_start >= self._batch_window)
FlushDue(b, start) == b # <<>> /\ now - start >= anomaly_batch_window

\* _dispatch_batch: one anomaly_detected broadcast and one investigation per
\* group (all modelled signals share one group); escalated: the group was
\* classified long-term and auto-escalated, which skips the investigation
DispatchBatch(b, escalated) ==
  /\ broadcasts' = Append(broadcasts, [group |-> b[1].group, signals |-> b, at |-> now])
  /\ investigations' = IF escalated THEN investigations ELSE Append(investigations, [group |-> b[1].group, signals |-> b, at |-> now])

\* the flush step that ends a loop iteration: dispatch, or an exception
\* out of _dispatch_batch (except Exception: batch = [])
FlushStep(b, start) ==
  IF FlushDue(b, start)
  THEN /\ batch' = <<>>
       /\ \/ \E escalated \in BOOLEAN : DispatchBatch(b, escalated)
          \/ UNCHANGED <<broadcasts, investigations>>
  ELSE /\ batch' = b
       /\ UNCHANGED <<broadcasts, investigations>>

\* a detector (fast loop or event watcher) puts a signal into the queue
PutSignal(k) ==
  /\ total_anomalies + Len(anomaly_queue) < MaxSignals
  /\ anomaly_queue' = Append(anomaly_queue, Signal(k))
  /\ UNCHANGED <<now, seen_keys, batch, batch_start, total_anomalies, suppressed_anomalies, broadcasts, investigations>>

\* one iteration of _anomaly_dispatcher that gets a signal from the queue
DispatcherGet ==
  /\ anomaly_queue # <<>>
  /\ LET sig == Head(anomaly_queue) IN
       /\ anomaly_queue' = Tail(anomaly_queue)
       /\ total_anomalies' = total_anomalies + 1
       /\ IF IsSuppressed(sig.dedupe_key)
          THEN /\ suppressed_anomalies' = suppressed_anomalies + 1
               /\ UNCHANGED <<seen_keys, batch, batch_start, broadcasts, investigations>>
          ELSE /\ seen_keys' = MarkSeen(sig.dedupe_key)
               /\ batch_start' = BatchStartAfter(sig)
               /\ FlushStep(BatchAfter(sig), BatchStartAfter(sig))
               /\ UNCHANGED suppressed_anomalies
  /\ UNCHANGED now

\* one iteration whose wait_for(queue.get(), timeout) timed out
DispatcherTimeout ==
  /\ anomaly_queue = <<>>
  /\ FlushStep(batch, batch_start)
  /\ UNCHANGED <<now, anomaly_queue, seen_keys, batch_start, total_anomalies, suppressed_anomalies>>

\* ContinuousMonitor.cleanup_stale_keys
cleanup_stale_keys ==
  /\ seen_keys' = [x \in {y \in DOMAIN seen_keys : ~(seen_keys[y] < now - anomaly_suppression_window * 2)} |-> seen_keys[x]]
  /\ UNCHANGED <<now, anomaly_queue, batch, batch_start, total_anomalies, suppressed_anomalies, broadcasts, investigations>>

\* the wall clock advances while the monitor runs
MonitorTick ==
  /\ now < MaxMonitorTime
  /\ now' = now + 1
  /\ UNCHANGED monvars

\* ContinuousMonitor.__init__ and the locals of _anomaly_dispatcher
MonitorInit ==
  /\ anomaly_queue = <<>>
  /\ seen_keys = [x \in {} |-> 0]
  /\ batch = <<>>
  /\ batch_start = 0
  /\ total_anomalies = 0
  /\ suppressed_anomalies = 0
  /\ broadcasts = <<>>
  /\ investigations = <<>>

\* ------------------------------------------------------------------------
\* Quorum gate (quorum.py, quorum_tools.py) and the agent's tools (agent.py)
\* ------------------------------------------------------------------------
\* quorum.QUORUM_REQUIRED_TOOLS
QUORUM_REQUIRED_TOOLS == {"restart_pod", "rollout_restart_deployment", "rollout_restart_statefulset", "scale_deployment", "cordon_node", "drain_node", "delete_failed_job", "rollback_deployment"}

\* the mutation tools create_tools returns, and two of its read-only tools
MutationTools == {"restart_pod", "rollout_restart_deployment", "rollout_restart_statefulset", "scale_deployment", "rollback_deployment", "delete_failed_job", "cordon_node", "drain_node"}
ReadOnlyTools == {"get_pod_details", "list_nodes"}
AgentTools == MutationTools \cup ReadOnlyTools

\* QuorumEvaluator.__init__: num_agents = min(num_agents, 3), threshold 0.5
num_agents == 3
threshold_num == 1
threshold_den == 2

\* what one _evaluate_single task yields: a vote that approves or rejects,
\* a reject vote built from a malformed reply (no JSON, or JSON without a
\* usable "approved"), a timeout or an LLM error, a vote whose approved
\* field is the truthy non-boolean of a malformed reply such as
\* {"approved": "no"} (parsed.get("approved", False) is stored as it is),
\* or an exception raised outside its try block (create_llm)
VoteOutcomes == {"approve", "reject", "malformed", "truthy", "timeout", "error", "raised"}

\* the voters that did not answer with a well-formed vote
FailedOutcomes == {"malformed", "truthy", "timeout", "error", "raised"}

VARIABLES
  quorum_enabled,  \* settings.quorum_enabled
  lastQuorum,      \* the QuorumResult of the last evaluate_action
  lastVoters,      \* what the voters of that evaluation did, as a tally
  lastTool         \* the last tool call: how it was made and what it did

qvars == <<quorum_enabled, lastQuorum, lastVoters, lastTool>>

\* valid_votes: the gather results that are QuorumVote instances
ValidVotes(votes) == {i \in DOMAIN votes : votes[i] # "raised"}
\* approve_count = sum(1 for v in valid_votes if v.approved)
ApproveCount(votes) == Cardinality({i \in ValidVotes(votes) : votes[i] \in {"approve", "truthy"}})

\* QuorumEvaluator.evaluate_action: approved = consensus_ratio > threshold,
\* and never with no valid vote
QuorumApproved(votes) == ValidVotes(votes) # {} /\ ApproveCount(votes) * threshold_den > threshold_num * Cardinality(ValidVotes(votes))

\* the QuorumResult: the verdict and the tally of the valid votes
evaluate_action(votes) == [approved |-> QuorumApproved(votes), approve_count |-> ApproveCount(votes), valid |-> Cardinality(ValidVotes(votes))]

NoQuorum == [approved |-> FALSE, approve_count |-> 0, valid |-> 0]

\* the tally of the voters: well-formed approvals, well-formed rejections,
\* and voters that were malformed, timed out or failed
VoterTally(votes) == [approved |-> Cardinality({i \in DOMAIN votes : votes[i] = "approve"}), rejected |-> Cardinality({i \in DOMAIN votes : votes[i] = "reject"}), failed |-> Cardinality({i \in DOMAIN votes : votes[i] \in FailedOutcomes})]
NoVoters == [approved |-> 0, rejected |-> 0, failed |-> 0]
NoTool == [tool |-> "none", via |-> "none", evaluated |-> FALSE, executed |-> FALSE, returned |-> "none"]

\* gated_func without the early return on rejection
GatedExecutesAlways(result) == TRUE

\* quorum_gate.gated_func: whether the original coroutine is awaited
GatedExecutes(result) == result.approved
\* quorum_gate.gated_func: what the wrapper returns
GatedReturn(result) == IF ~result.approved THEN "BLOCKED by quorum" ELSE "handler result"

\* apply_quorum_gates: the tools of a list that get wrapped
apply_quorum_gates(tools) == {t \in tools : t \in QUORUM_REQUIRED_TOOLS}

\* ClusterGuardian.__init__: self.tools = create_tools(...) is bound to the
\* LLM and given to the ToolNode as created; apply_quorum_gates is not
\* called, whatever settings.quorum_enabled is
ClusterGuardianGated == {}

\* a call of a tool wrapped by quorum_gate (quorum_tools.quorum_gate)
GatedToolCall(tool, votes) ==
  /\ lastTool = NoTool
  /\ lastQuorum' = evaluate_action(votes)
  /\ lastVoters' = VoterTally(votes)
  /\ lastTool' = [tool |-> tool, via |-> "quorum_gate", evaluated |-> TRUE, executed |-> GatedExecutes(evaluate_action(votes)), returned |-> GatedReturn(evaluate_action(votes))]
  /\ UNCHANGED quorum_enabled

\* the agent's ToolNode runs a tool call of the LLM (agent.py)
AgentToolCall(tool) ==
  /\ lastTool = NoTool
  /\ IF tool \in ClusterGuardianGated
     THEN \E votes \in [1..num_agents -> VoteOutcomes] :
          /\ lastQuorum' = evaluate_action(votes)
          /\ lastVoters' = VoterTally(votes)
          /\ lastTool' = [tool |-> tool, via |-> "agent", evaluated |-> TRUE, executed |-> GatedExecutes(evaluate_action(votes)), returned |-> GatedReturn(evaluate_action(votes))]
     ELSE /\ lastQuorum' = lastQuorum
          /\ lastVoters' = lastVoters
          /\ lastTool' = [tool |-> tool, via |-> "agent", evaluated |-> FALSE, executed |-> TRUE, returned |-> "handler result"]
  /\ UNCHANGED quorum_enabled

\* the tool's reply goes back to its caller (the ToolNode appends it to the
\* messages); the locals of gated_func are gone
ToolReturn ==
  /\ lastTool # NoTool
  /\ lastTool' = NoTool
  /\ lastQuorum' = NoQuorum
  /\ lastVoters' = NoVoters
  /\ UNCHANGED quorum_enabled

QuorumInit ==
  /\ quorum_enabled \in BOOLEAN
  /\ lastQuorum = NoQuorum
  /\ lastVoters = NoVoters
  /\ lastTool = NoTool

\* ------------------------------------------------------------------------
\* Incident Correlator (incident_correlator.py) behind the Alertmanager
\* webhook (api.py)
\* ------------------------------------------------------------------------
MaxCorrTime == 3
MaxAlerts == 3

\* settings.correlation_window_seconds (300 s), in ticks
correlation_window_seconds == 2
\* settings.correlation_debounce_seconds (30 s), in ticks
correlation_debounce_seconds == 1
\* settings.correlation_expiry_seconds (3600 s), in ticks
correlation_expiry_seconds == 3

VARIABLES
  incident_heap,    \* the Incident objects alive, by id
  _incidents,       \* IncidentCorrelator._incidents: correlation key -> Incident
  _debounce_tasks,  \* IncidentCorrelator._debounce_tasks: key -> task
  placements,       \* every alert correlated so far and the Incident it got
  fired             \* calls of the investigation callback

corrvars == <<incident_heap, _incidents, _debounce_tasks, placements, fired>>

\* one group of RELATED_ALERT_GROUPS and an alert name outside every group
RELATED_ALERT_GROUPS == {{"KubePodCrashLooping", "KubePodNotReady", "KubeContainerWaiting"}}
AlertNames == {"KubePodCrashLooping", "KubePodNotReady", "HighMemory"}
AlertPods == {"web", "api"}
\* the alerts Alertmanager sends: every name for pod web, and a crash loop
\* of pod api that related alerts of web can attach to
Alerts == {a \in [alertname : AlertNames, namespace : {"default"}, pod : AlertPods] : a.pod = "api" => a.alertname = "KubePodCrashLooping"}

\* _alerts_related
_alerts_related(a, b) == \E group \in RELATED_ALERT_GROUPS : a \in group /\ b \in group

\* _correlation_key: f"{ns}/{workload}", the workload here being the pod
_correlation_key(alert) == <<alert.namespace, alert.pod>>

\* _incident_id(f"{key}-{now}"): a digest of the key and the creation time
_incident_id(key, t) == <<key, t>>

\* Incident.alert_names
alert_names(inc) == {inc.alerts[i].alertname : i \in DOMAIN inc.alerts}

\* Incident.description: one line per distinct (alertname, namespace, pod)
description(inc) == {<<inc.alerts[i].alertname, inc.alerts[i].namespace, inc.alerts[i].pod>> : i \in DOMAIN inc.alerts}

\* Incident.add_alert
add_alert(inc, alert) == [inc EXCEPT !.alerts = Append(@, alert), !.last_alert_at = now]

\* correlate: the window test, taken one tick late
WithinWindowLate(inc) == now - inc.last_alert_at <= correlation_window_seconds

\* correlate: (now - incident.last_alert_at) < self.window_seconds
WithinWindow(inc) == now - inc.last_alert_at < correlation_window_seconds

\* correlate: the registered Incidents a related alert name attaches to
RelatedIncidents(alert) == {k \in DOMAIN _incidents : WithinWindow(incident_heap[_incidents[k]]) /\ \E n \in alert_names(incident_heap[_incidents[k]]) : n # alert.alertname /\ _alerts_related(alert.alertname, n)}

\* correlate: the id of the Incident the alert is placed in
CorrelateTarget(alert) ==
  LET key == _correlation_key(alert) IN
  IF key \in DOMAIN _incidents /\ WithinWindow(incident_heap[_incidents[key]]) THEN _incidents[key]
  ELSE IF RelatedIncidents(alert) # {} THEN _incidents[CHOOSE k \in RelatedIncidents(alert) : TRUE]
  ELSE _incident_id(key, now)

\* correlate: the Incident objects afterwards
CorrelateHeap(alert) ==
  LET id == CorrelateTarget(alert) IN
  IF id \in DOMAIN incident_heap /\ id \in {_incidents[k] : k \in DOMAIN _incidents}
  THEN [incident_heap EXCEPT ![id] = add_alert(@, alert)]
  ELSE [x \in DOMAIN incident_heap \cup {id} |-> IF x = id THEN [id |-> id, correlation_key |-> _correlation_key(alert), alerts |-> <<alert>>, created_at |-> now, last_alert_at |-> now, investigated |-> FALSE] ELSE incident_heap[x]]

\* correlate: self._incidents afterwards
CorrelateIndex(alert) ==
  LET id == CorrelateTarget(alert) key == _correlation_key(alert) IN
  IF id \in {_incidents[k] : k \in DOMAIN _incidents} THEN _incidents
  ELSE [k \in DOMAIN _incidents \cup {key} |-> IF k = key THEN id ELSE _incidents[k]]

\* expire_old: the keys whose Incident is older than the expiry
ExpiredKeys(heap, index) == {k \in DOMAIN index : now - heap[index[k]].last_alert_at >= correlation_expiry_seconds}

\* a debounce task: the Incident its closure holds, when its sleep ends,
\* and whether it is still pending
Task(id, deadline) == [incident |-> id, deadline |-> deadline, status |-> "pending"]

\* schedule_investigation that leaves a pending timer of the key running
ScheduleKeepTimer(tasks, key, id) ==
  IF key \in DOMAIN tasks /\ tasks[key].status = "pending" THEN tasks
  ELSE [k \in DOMAIN tasks \cup {key} |-> IF k = key THEN Task(id, now + correlation_debounce_seconds) ELSE tasks[k]]

\* schedule_investigation: cancel the key's task if it is not done, then
\* self._debounce_tasks[key] = asyncio.create_task(_debounced())
schedule_investigation(tasks, key, id) ==
  [k \in DOMAIN tasks \cup {key} |-> IF k = key THEN Task(id, now + correlation_debounce_seconds) ELSE tasks[k]]

\* the Incident objects still referenced: registered, or held by a pending
\* task
Referenced(heap, index, tasks) == {index[k] : k \in DOMAIN index} \cup {tasks[k].incident : k \in {x \in DOMAIN tasks : tasks[x].status = "pending"}}

\* POST /webhook/alertmanager with one firing alert: correlate, expire_old,
\* then the schedule_investigation coroutine the handler left on the loop
alertmanager_webhook(alert) ==
  /\ Len(placements) < MaxAlerts
  /\ LET id == CorrelateTarget(alert)
         heap1 == CorrelateHeap(alert)
         index1 == CorrelateIndex(alert)
         gone == ExpiredKeys(heap1, index1)
         index2 == [k \in DOMAIN index1 \ gone |-> index1[k]]
         tasks2 == [k \in DOMAIN _debounce_tasks \ gone |-> _debounce_tasks[k]]
         tasks3 == schedule_investigation(tasks2, heap1[id].correlation_key, id)
     IN /\ _incidents' = index2
        /\ _debounce_tasks' = tasks3
        /\ incident_heap' = [x \in Referenced(heap1, index2, tasks3) |-> heap1[x]]
        /\ placements' = Append(placements, [alert |-> alert, key |-> _correlation_key(alert), at |-> now, incident |-> id])
  /\ UNCHANGED <<now, fired>>

\* _debounced after its sleep: if not incident.investigated, mark it and
\* await the investigation callback with the description
DebounceFire(key) ==
  /\ key \in DOMAIN _debounce_tasks
  /\ _debounce_tasks[key].status = "pending"
  /\ _debounce_tasks[key].deadline <= now
  /\ LET id == _debounce_tasks[key].incident
         inc == incident_heap[id]
         tasks1 == [_debounce_tasks EXCEPT ![key].status = "done"]
         heap1 == [incident_heap EXCEPT ![id].investigated = TRUE]
     IN /\ _debounce_tasks' = tasks1
        /\ incident_heap' = [x \in Referenced(heap1, _incidents, tasks1) |-> heap1[x]]
        /\ fired' = IF inc.investigated THEN fired ELSE Append(fired, [incident |-> id, thread_id |-> <<"incident", id>>, description |-> description(inc), at |-> now, seen |-> Len(placements)])
  /\ UNCHANGED <<now, _incidents, placements>>

\* time passes; a sleep that has ended runs before the clock moves on
CorrTick ==
  /\ now < MaxCorrTime
  /\ \A k \in DOMAIN _debounce_tasks : _debounce_tasks[k].status = "pending" => _debounce_tasks[k].deadline > now
  /\ now' = now + 1
  /\ UNCHANGED corrvars

\* IncidentCorrelator.__init__
CorrelatorInit ==
  /\ incident_heap = <<>>
  /\ _incidents = <<>>
  /\ _debounce_tasks = <<>>
  /\ placements = <<>>
  /\ fired = <<>>

CorrelatorNext ==
  \/ CorrTick
  \/ \E alert \in Alerts : alertmanager_webhook(alert)
  \/ \E key \in {_correlation_key(a) : a \in Alerts} : DebounceFire(key)

\* ------------------------------------------------------------------------
\* Agent loop (agent.py): run_scan, investigate_issue and their graph
\* ------------------------------------------------------------------------
\* the recursion_limit run_scan and investigate_issue hand to the graph
\* (25 in the source): the number of super-steps - executions of the agent
\* node or of the tools node - one run of the graph may take
recursion_limit == 5

\* settings.max_agent_iterations: its default (25 in the source, equal to
\* the recursion limit) and a small value an operator may set
AgentIterationChoices == {2, recursion_limit}

\* settings.quiet_hours_start / quiet_hours_end as times of day:
\* not configured, a same-day window and an overnight window
NoQuietHours == [start |-> -1, end |-> -1]
QuietHoursChoices == {NoQuietHours, [start |-> 1, end |-> 2], [start |-> 2, end |-> 1]}

\* the content of a message, and the message of an exception (str(e))
Contents == {"", "text"}
ExceptionMessages == {"", "connection error"}

\* the tool calls of an LLM turn: none, a mutation tool, a read-only tool
NoCall == "none"
LLMToolCalls == {NoCall, "restart_pod", "get_pod_details"}

VARIABLES
  max_agent_iterations, \* settings.max_agent_iterations
  quiet_hours,          \* settings.quiet_hours_start, settings.quiet_hours_end
  agent_pc,             \* where the run is: idle, agent, tools, end, returned
  run,                  \* the run's locals: which entry point, quiet
  iteration,            \* GuardianState.iteration
  steps,                \* the super-steps the graph has taken in this run
  last_message,         \* messages[-1] of the GuardianState
  ai_content,           \* content of the last AIMessage that has content
  executed,             \* the tool calls the tools node has run in this run
  lastRun,              \* the dict the run returned
  ws_messages           \* what broadcast_update sent for this run

agentvars == <<max_agent_iterations, quiet_hours, agent_pc, run, iteration, steps, last_message, ai_content, executed, lastRun, ws_messages>>

\* _is_quiet_hours: False unless both ends are configured; a same-day
\* window when start <= end, an overnight window otherwise
_is_quiet_hours ==
  IF quiet_hours.start = -1 \/ quiet_hours.end = -1 THEN FALSE
  ELSE IF quiet_hours.start <= quiet_hours.end THEN quiet_hours.start <= now /\ now < quiet_hours.end
  ELSE now >= quiet_hours.start \/ now < quiet_hours.end

NoRunLocals == [kind |-> "none", quiet |-> FALSE]
NoMessage == [kind |-> "none", tool_call |-> NoCall, content |-> "", bound |-> FALSE, summarize |-> FALSE]
NoRun == [kind |-> "none", success |-> FALSE, summary |-> "", error |-> "", has_error |-> FALSE, has_id |-> FALSE, closure |-> "none", raised |-> "none"]

\* the instruction of the run: the HumanMessage of initial_state
Instruction(quiet) == [kind |-> "human", tool_call |-> NoCall, content |-> IF quiet THEN "QUIET HOURS ARE ACTIVE" ELSE "text", bound |-> FALSE, summarize |-> FALSE]

\* run_scan / investigate_issue up to graph.astream(initial_state, config):
\* quiet = _is_quiet_hours() only selects the instruction text
StartRun(kind) ==
  /\ agent_pc = "idle"
  /\ CallerIdle
  /\ run' = [kind |-> kind, quiet |-> _is_quiet_hours]
  /\ last_message' = Instruction(_is_quiet_hours)
  /\ iteration' = 0
  /\ steps' = 0
  /\ ai_content' = ""
  /\ executed' = <<>>
  /\ agent_pc' = "agent"
  /\ UNCHANGED <<max_agent_iterations, quiet_hours, lastRun, ws_messages, gwvars>>

\* POST /api/v1/scan (trigger_scan) and the scheduled scan call run_scan
run_scan == StartRun("scan")

\* POST /api/v1/investigate and the monitor's and the correlator's
\* callbacks call investigate_issue
investigate_issue == StartRun("investigate")

\* agent_node: which LLM is invoked - self.llm with the summarize turn on
\* the final iteration, self.llm_with_tools before it
SummarizeTurn == iteration >= max_agent_iterations - 1

\* what the invoked LLM may answer: only an LLM with tools bound can
\* answer with tool calls
Responses == [tool_call : IF SummarizeTurn THEN {NoCall} ELSE LLMToolCalls, content : Contents]

\* should_continue on the state agent_node returned
should_continue(iter, msg) ==
  IF iter >= max_agent_iterations THEN "end"
  ELSE IF msg.tool_call # NoCall THEN "tools"
  ELSE "end"

\* one super-step at the agent node: agent_node, then the conditional edge
agent_node(resp) ==
  /\ agent_pc = "agent"
  /\ steps < recursion_limit
  /\ CallerIdle
  /\ last_message' = [kind |-> "ai", tool_call |-> resp.tool_call, content |-> resp.content, bound |-> ~SummarizeTurn, summarize |-> SummarizeTurn]
  /\ ai_content' = IF resp.content # "" THEN resp.content ELSE ai_content
  /\ iteration' = iteration + 1
  /\ steps' = steps + 1
  /\ agent_pc' = should_continue(iteration + 1, [tool_call |-> resp.tool_call])
  /\ UNCHANGED <<max_agent_iterations, quiet_hours, run, executed, lastRun, ws_messages, gwvars>>

\* the record of one executed tool call: the tool, whether the time was
\* inside the quiet-hours window, whether a summarize turn came before it,
\* and whether the gateway carried a mutation out
ToolRecord(tool, result) == [tool |-> tool, quiet |-> _is_quiet_hours, after_summarize |-> last_message.summarize, mutated |-> tool \in MutationTools /\ result.success]

\* one super-step at the tools node: ToolNode(self.tools) runs the tool
\* call of the last message; a mutation tool awaits the gateway
tool_node ==
  /\ agent_pc = "tools"
  /\ steps < recursion_limit
  /\ IF last_message.tool_call \in MutationTools
     THEN \E ns \in Namespaces, name \in Names : restart_pod(ns, name, "ok")
     ELSE UNCHANGED gwvars
  /\ executed' = Append(executed, ToolRecord(last_message.tool_call, lastResult'))
  /\ last_message' = [kind |-> "tool", tool_call |-> NoCall, content |-> "text", bound |-> FALSE, summarize |-> FALSE]
  /\ steps' = steps + 1
  /\ agent_pc' = "agent"
  /\ UNCHANGED <<max_agent_iterations, quiet_hours, run, iteration, ai_content, lastRun, ws_messages>>

\* trigger_scan broadcasts scan_complete with whatever run_scan returned;
\* investigate_issue and its callers broadcast nothing
BroadcastFor(kind, result) == IF kind = "scan" THEN Append(ws_messages, [type |-> "scan_complete", success |-> result.success]) ELSE ws_messages

\* the run returns result to its caller
Finish(result) ==
  /\ lastRun' = result
  /\ ws_messages' = BroadcastFor(run.kind, result)
  /\ agent_pc' = "returned"
  /\ UNCHANGED <<max_agent_iterations, quiet_hours, run, iteration, steps, last_message, ai_content, executed, gwvars>>

\* the summary: the content of the last AIMessage that has content, or the
\* default text
Summary(kind) == IF ai_content # "" THEN ai_content ELSE IF kind = "scan" THEN "Scan completed" ELSE "Investigation completed"

\* the graph ended: return {"success": True, "summary": summary, ...}
RunCompleted ==
  /\ agent_pc = "end"
  /\ Finish([kind |-> run.kind, success |-> TRUE, summary |-> Summary(run.kind), error |-> "", has_error |-> FALSE, has_id |-> FALSE, closure |-> IF last_message.summarize THEN "summarize" ELSE "text", raised |-> "none"])

\* except Exception as e: return {"success": False, "error": str(e), ...}
RunFailed(msg, cause) == Finish([kind |-> run.kind, success |-> FALSE, summary |-> "", error |-> msg, has_error |-> TRUE, has_id |-> FALSE, closure |-> "none", raised |-> cause])

\* the LLM call of agent_node raises
LLMRaises(msg) ==
  /\ agent_pc = "agent"
  /\ steps < recursion_limit
  /\ CallerIdle
  /\ RunFailed(msg, "llm")

\* the graph raises GraphRecursionError: a further super-step is due after
\* recursion_limit of them
GraphRecursionError ==
  /\ agent_pc \in {"agent", "tools"}
  /\ steps >= recursion_limit
  /\ RunFailed("Recursion limit reached", "GraphRecursionError")

\* the caller has the result; the locals of the run are gone
AgentReturn ==
  /\ agent_pc = "returned"
  /\ agent_pc' = "idle"
  /\ run' = NoRunLocals
  /\ last_message' = NoMessage
  /\ iteration' = 0
  /\ steps' = 0
  /\ ai_content' = ""
  /\ executed' = <<>>
  /\ lastRun' = NoRun
  /\ ws_messages' = <<>>
  /\ UNCHANGED <<max_agent_iterations, quiet_hours, gwvars>>

\* ClusterGuardian.__init__ / _build_graph with the settings as loaded
AgentInit ==
  /\ max_agent_iterations \in AgentIterationChoices
  /\ quiet_hours \in QuietHoursChoices
  /\ agent_pc = "idle"
  /\ run = NoRunLocals
  /\ last_message = NoMessage
  /\ iteration = 0
  /\ steps = 0
  /\ ai_content = ""
  /\ executed = <<>>
  /\ lastRun = NoRun
  /\ ws_messages = <<>>

AgentIdle ==
  /\ max_agent_iterations = recursion_limit
  /\ quiet_hours = NoQuietHours
  /\ agent_pc = "idle"
  /\ run = NoRunLocals
  /\ last_message = NoMessage
  /\ iteration = 0
  /\ steps = 0
  /\ ai_content = ""
  /\ executed = <<>>
  /\ lastRun = NoRun
  /\ ws_messages = <<>>

AgentNext ==
  \/ run_scan
  \/ investigate_issue
  \/ \E resp \in Responses : agent_node(resp)
  \/ \E msg \in ExceptionMessages : LLMRaises(msg)
  \/ tool_node
  \/ GraphRecursionError
  \/ RunCompleted
  \/ AgentReturn
  \/ ReturnToCaller /\ UNCHANGED agentvars
  \/ Tick /\ UNCHANGED agentvars

\* ------------------------------------------------------------------------
\* Self-Tuner (self_tuner.py) and its Redis keys (redis_client.py)
\* ------------------------------------------------------------------------
MaxRecords == 4
MaxGoals == 2

\* settings.escalation_threshold
escalation_threshold == 3
\* ESCALATION_COOLDOWN (86400 s in the source), in ticks
ESCALATION_COOLDOWN == 2

\* the keys record_issue is called with (a signal's dedupe_key) and the
\* keys _dispatch_batch escalates itself (a group's namespace/resource)
RecordKeys == {"crashloop:default/web/app"}
GroupKeys == {"default/web"}
\* the dedupe keys of the signals the monitor dispatches
SignalKeys == {"crashloop:default/web/app", "node_condition:default/web", "prom:cpu"}
PatternKeys == RecordKeys \cup GroupKeys \cup SignalKeys

VARIABLES
  _dev_controller,  \* SelfTuner._dev_controller is set
  _issue_counts,    \* SelfTuner._issue_counts
  redis_patterns,   \* hash guardian:issue_patterns
  redis_escalated,  \* keys guardian:escalated:<key>: when set, or -1
  recordings,       \* per key, the calls of record_issue and what each did
  goals             \* the goals the dev controller accepted, and when

tunervars == <<_dev_controller, _issue_counts, redis_patterns, redis_escalated, recordings, goals>>

\* RedisClient.was_recently_escalated: the key exists, i.e. it was set and
\* its TTL of ESCALATION_COOLDOWN has not run out; False when Redis is
\* unavailable or the read fails
was_recently_escalated(key, rd) == redis_available /\ rd = "ok" /\ redis_escalated[key] # -1 /\ now < redis_escalated[key] + ESCALATION_COOLDOWN

\* RedisClient.record_escalation: set the key with the TTL; nothing when
\* Redis is unavailable or the write fails
record_escalation(key, rd) == IF redis_available /\ rd = "ok" THEN [redis_escalated EXCEPT ![key] = now] ELSE redis_escalated

\* RedisClient.increment_issue_pattern
increment_issue_pattern(key, rd) == IF redis_available /\ rd = "ok" THEN [redis_patterns EXCEPT ![key] = @ + 1] ELSE redis_patterns

\* DevControllerClient.submit_goal returns the response or {"error": ...}
SubmitResults == {"accepted", "error"}

\* SelfTuner.auto_escalate: whether it gets as far as a goal the dev
\* controller accepts
Submits(key, rd, sub) == ~was_recently_escalated(key, rd) /\ _dev_controller /\ sub = "accepted"

\* SelfTuner.auto_escalate: cooldown check, submit_goal, record_escalation
auto_escalate(key, rd, sub, wr) ==
  /\ goals' = IF Submits(key, rd, sub) THEN Append(goals, [key |-> key, at |-> now]) ELSE goals
  /\ redis_escalated' = IF Submits(key, rd, sub) THEN record_escalation(key, wr) ELSE redis_escalated

\* record_issue's test for the escalation: the count has passed the
\* threshold
EscalationDueLate(count, success) == count > escalation_threshold /\ success

\* record_issue's test for the escalation
EscalationDue(count, success) == count >= escalation_threshold /\ success

\* the calls of record_issue so far
RECURSIVE Recorded(_)
Recorded(keys) == IF keys = {} THEN 0 ELSE LET k == CHOOSE x \in keys : TRUE IN Len(recordings[k]) + Recorded(keys \ {k})

\* SelfTuner.record_issue; wr is the outcome of its Redis writes, rd of
\* its Redis read
record_issue(key, success, rd, sub, wr) ==
  /\ Recorded(PatternKeys) < MaxRecords
  /\ Len(goals) < MaxGoals
  /\ _issue_counts' = [_issue_counts EXCEPT ![key] = @ + 1]
  /\ redis_patterns' = increment_issue_pattern(key, wr)
  /\ recordings' = [recordings EXCEPT ![key] = Append(@, [success |-> success, count |-> _issue_counts[key] + 1, called |-> EscalationDue(_issue_counts[key] + 1, success)])]
  /\ IF EscalationDue(_issue_counts[key] + 1, success)
     THEN auto_escalate(key, rd, sub, wr)
     ELSE UNCHANGED <<goals, redis_escalated>>
  /\ UNCHANGED <<_dev_controller, gwvars>>

\* ContinuousMonitor._dispatch_batch calls auto_escalate itself for a
\* group classified long_term
dispatch_long_term(key, rd, sub, wr) ==
  /\ _dev_controller
  /\ Len(goals) < MaxGoals
  /\ auto_escalate(key, rd, sub, wr)
  /\ UNCHANGED <<_dev_controller, _issue_counts, redis_patterns, recordings, gwvars>>

\* SelfTuner.__init__ as get_self_tuner calls it
TunerInit ==
  /\ _dev_controller \in BOOLEAN
  /\ _issue_counts = [k \in PatternKeys |-> 0]
  /\ redis_patterns = [k \in PatternKeys |-> 0]
  /\ redis_escalated = [k \in PatternKeys |-> -1]
  /\ recordings = [k \in PatternKeys |-> <<>>]
  /\ goals = <<>>

TunerIdle ==
  /\ _dev_controller = TRUE
  /\ _issue_counts = [k \in PatternKeys |-> 0]
  /\ redis_patterns = [k \in PatternKeys |-> 0]
  /\ redis_escalated = [k \in PatternKeys |-> -1]
  /\ recordings = [k \in PatternKeys |-> <<>>]
  /\ goals = <<>>

TunerNext ==
  \/ \E key \in RecordKeys, success \in BOOLEAN, rd \in RedisOutcomes, sub \in SubmitResults, wr \in RedisOutcomes : record_issue(key, success, rd, sub, wr)
  \/ \E key \in GroupKeys, rd \in RedisOutcomes, sub \in SubmitResults, wr \in RedisOutcomes : dispatch_long_term(key, rd, sub, wr)
  \/ Tick /\ UNCHANGED tunervars

\* ------------------------------------------------------------------------
\* Fast-loop interval: SelfTuner.tune_intervals, the config store value of
\* fast_loop_interval_seconds and ContinuousMonitor._refresh_interval
\* ------------------------------------------------------------------------
\* settings.fast_loop_interval_seconds, in seconds
fast_loop_interval_seconds == 30

\* the values an operator may write through PATCH /api/v1/config: any int
\* passes the validation of the Settings field
IntervalChoices == {0, 70}

\* the issue counts the tuner may hold when the fast loop calls it
PastCounts == {0, 6}

VARIABLES
  config_fast_loop,    \* hash guardian:config, fast_loop_interval_seconds (-1: no override)
  _fast_loop_interval, \* ContinuousMonitor._fast_loop_interval
  last_issue_at,       \* when record_issue was last called (-1: never)
  lastTune             \* what the last tune_intervals call saw and did

intervalvars == <<config_fast_loop, _fast_loop_interval, last_issue_at, lastTune>>

NoTune == [branch |-> "none", total_recent |-> 0, before |-> 0, new |-> 0, after |-> 0, at |-> 0, last_issue_at |-> -1]

\* ConfigStore.get("fast_loop_interval_seconds"): the Redis override if
\* Redis is available, the read succeeds and the field is set; otherwise
\* the default of settings
StoreGetInterval(override, rd) == IF redis_available /\ rd = "ok" /\ override # -1 THEN override ELSE fast_loop_interval_seconds

\* ConfigStore.set("fast_loop_interval_seconds", v): raises, and writes
\* nothing, when Redis is unavailable or the write fails
StoreSetInterval(v, wr) == IF redis_available /\ wr = "ok" THEN v ELSE config_fast_loop

\* total_recent = sum(self._issue_counts.values())
RECURSIVE SumCounts(_)
SumCounts(keys) == IF keys = {} THEN 0 ELSE LET k == CHOOSE x \in keys : TRUE IN _issue_counts[k] + SumCounts(keys \ {k})

Min(a, b) == IF a <= b THEN a ELSE b
Max(a, b) == IF a >= b THEN a ELSE b

\* tune_intervals: which branch it takes
TuneBranch(total_recent) == IF total_recent = 0 THEN "stable" ELSE IF total_recent > 5 THEN "active" ELSE "default"

\* tune_intervals: new_interval
NewInterval(total_recent, current_interval) ==
  IF total_recent = 0 THEN Min(current_interval + 10, 60)
  ELSE IF total_recent > 5 THEN Max(current_interval - 5, 15)
  ELSE 30

\* SelfTuner.tune_intervals; rd is the outcome of the Redis read of
\* store.get, wr of the Redis write of store.set. Every exception is
\* caught and logged.
tune_intervals(rd, wr) ==
  LET total_recent == SumCounts(PatternKeys)
      current_interval == StoreGetInterval(config_fast_loop, rd)
      new_interval == NewInterval(total_recent, current_interval)
      stored == IF new_interval # current_interval THEN StoreSetInterval(new_interval, wr) ELSE config_fast_loop
  IN /\ lastTune = NoTune
     /\ config_fast_loop' = stored
     /\ lastTune' = [branch |-> TuneBranch(total_recent), total_recent |-> total_recent, before |-> current_interval, new |-> new_interval, after |-> StoreGetInterval(stored, "ok"), at |-> now, last_issue_at |-> last_issue_at]
     /\ UNCHANGED <<_fast_loop_interval, last_issue_at, tunervars, gwvars>>

\* ContinuousMonitor._refresh_interval, at the head of every fast loop
_refresh_interval(rd) ==
  /\ lastTune = NoTune
  /\ _fast_loop_interval' = IF StoreGetInterval(config_fast_loop, rd) > 0 THEN StoreGetInterval(config_fast_loop, rd) ELSE _fast_loop_interval
  /\ UNCHANGED <<config_fast_loop, last_issue_at, lastTune, tunervars, gwvars>>

\* tune_intervals returns to the fast loop; its locals are gone
TuneReturn ==
  /\ lastTune # NoTune
  /\ lastTune' = NoTune
  /\ UNCHANGED <<config_fast_loop, _fast_loop_interval, last_issue_at, tunervars, gwvars>>

\* PATCH /api/v1/config with fast_loop_interval_seconds: ConfigStore.set
patch_config_interval(v, wr) ==
  /\ lastTune = NoTune
  /\ config_fast_loop' = StoreSetInterval(v, wr)
  /\ UNCHANGED <<_fast_loop_interval, last_issue_at, lastTune, tunervars, gwvars>>

\* _dispatch_batch records a signal in the tuner
RecordForTuner(key, rd, sub, wr) ==
  /\ lastTune = NoTune
  /\ record_issue(key, TRUE, rd, sub, wr)
  /\ last_issue_at' = now
  /\ UNCHANGED <<config_fast_loop, _fast_loop_interval, lastTune>>

\* the recordings that brought a key's count to n while the dev
\* controller was disabled
PastRecordings(n) == [i \in 1..n |-> [success |-> TRUE, count |-> i, called |-> EscalationDue(i, TRUE)]]

\* ContinuousMonitor.__init__ and an empty guardian:config hash
IntervalIdle ==
  /\ config_fast_loop = -1
  /\ _fast_loop_interval = fast_loop_interval_seconds
  /\ last_issue_at = -1
  /\ lastTune = NoTune

\* the tuner as the fast loop finds it: no dev controller, and a key that
\* has been recorded some number of times so far
IntervalTunerInit ==
  /\ _dev_controller = FALSE
  /\ \E n \in PastCounts :
       /\ _issue_counts = [k \in PatternKeys |-> IF k \in RecordKeys THEN n ELSE 0]
       /\ redis_patterns = [k \in PatternKeys |-> IF k \in RecordKeys /\ redis_available THEN n ELSE 0]
       /\ recordings = [k \in PatternKeys |-> IF k \in RecordKeys THEN PastRecordings(n) ELSE <<>>]
       /\ last_issue_at = IF n = 0 THEN -1 ELSE 0
  /\ redis_escalated = [k \in PatternKeys |-> -1]
  /\ goals = <<>>
  /\ config_fast_loop = -1
  /\ _fast_loop_interval = fast_loop_interval_seconds
  /\ lastTune = NoTune

IntervalNext ==
  \/ \E rd \in RedisOutcomes, wr \in RedisOutcomes : tune_intervals(rd, wr)
  \/ \E rd \in RedisOutcomes : _refresh_interval(rd)
  \/ \E v \in IntervalChoices, wr \in RedisOutcomes : patch_config_interval(v, wr)
  \/ \E key \in RecordKeys, wr \in RedisOutcomes : RecordForTuner(key, "ok", "error", wr)
  \/ TuneReturn
  \/ Tick /\ lastTune = NoTune /\ UNCHANGED <<tunervars, intervalvars>>

\* ------------------------------------------------------------------------
\* Config store (config_store.py): typed values over the Redis hash
\* guardian:config
\* ------------------------------------------------------------------------
\* a type annotation of a Settings field: typing.get_origin and
\* typing.get_args of it
Plain(name) == [origin |-> "None", name |-> name, args |-> <<>>]
Generic(origin, args) == [origin |-> origin, name |-> origin, args |-> args]

\* Settings.model_fields: a field of each annotation config.py uses
ConfigKeys == {"debug", "port", "quiet_hours_tz", "quiet_hours_start", "protected_namespaces"}
Annotation(key) ==
  CASE key = "debug" -> Plain("bool")
    [] key = "port" -> Plain("int")
    [] key = "quiet_hours_tz" -> Plain("str")
    [] key = "quiet_hours_start" -> Generic("Union", <<Plain("str"), Plain("NoneType")>>)
    [] key = "protected_namespaces" -> Generic("list", <<Plain("str")>>)

\* a Python value: its type, its text (str(value)) and, for a list, its
\* items
PyValue(type, text, items) == [type |-> type, text |-> text, items |-> items]
PyBool(b) == PyValue("bool", IF b THEN "True" ELSE "False", <<>>)
PyInt(digits) == PyValue("int", digits, <<>>)
PyStr(text) == PyValue("str", text, <<>>)
PyNone == PyValue("NoneType", "None", <<>>)
PyList(items) == PyValue("list", "", items)
NoValue == PyValue("unset", "", <<>>)

\* the values a caller may hand to set
ConfigValues == {PyBool(TRUE), PyBool(FALSE), PyInt("9999"), PyStr("UTC"), PyStr("22:00"), PyNone, PyList(<<"ns-a", "ns-b">>), PyList(<<>>)}

\* getattr(settings, key): the environment defaults
Default(key) ==
  CASE key = "debug" -> PyBool(FALSE)
    [] key = "port" -> PyInt("8900")
    [] key = "quiet_hours_tz" -> PyStr("UTC")
    [] key = "quiet_hours_start" -> PyNone
    [] key = "protected_namespaces" -> PyList(<<"kube-system">>)

\* a string in Redis: plain text, or the JSON text of a list of strings
RawText(text) == [kind |-> "text", text |-> text, items |-> <<>>]
RawJson(items) == [kind |-> "json_list", text |-> "", items |-> items]
NoRaw == [kind |-> "nil", text |-> "", items |-> <<>>]

VARIABLES
  config_hash, \* hash guardian:config: key -> raw string, or NoRaw
  last_set,    \* per key, the value the last successful set stored
  lastConfig   \* the last call of the store and what it returned

cfgvars == <<config_hash, last_set, lastConfig>>

\* ConfigStore._get_field_type
_get_field_type(key) ==
  LET annotation == Annotation(key)
      non_none == SelectSeq(annotation.args, LAMBDA a : a.name # "NoneType")
  IN IF annotation.origin = "NoneType" THEN "None"
     ELSE IF annotation.origin # "None" /\ non_none # <<>>
          THEN IF non_none[1].origin # "None" THEN non_none[1].origin ELSE non_none[1].name
     ELSE annotation.name

\* ConfigStore._serialize
_serialize(value) ==
  IF value.type = "list" THEN RawJson(value.items)
  ELSE IF value.type = "bool" THEN RawText(IF value.text = "True" THEN "true" ELSE "false")
  ELSE RawText(value.text)

\* str.lower() on the texts that occur
Lower(text) == IF text = "True" THEN "true" ELSE IF text = "False" THEN "false" ELSE text
\* the texts int() accepts
IsIntText(text) == text \in {"9999", "8900"}
\* the raw string as a Python str
RawAsStr(raw) == IF raw.kind = "json_list" THEN PyValue("str", "json", raw.items) ELSE PyStr(raw.text)

\* ConfigStore._deserialize; "raises" where int() or json.loads raise
_deserialize(key, raw) ==
  LET field_type == _get_field_type(key)
  IN IF field_type = "None" THEN RawAsStr(raw)
     ELSE IF field_type = "bool" THEN PyBool(raw.kind = "text" /\ Lower(raw.text) \in {"true", "1", "yes"})
     ELSE IF field_type = "int" THEN (IF raw.kind = "text" /\ IsIntText(raw.text) THEN PyInt(raw.text) ELSE PyValue("raises", "", <<>>))
     ELSE IF field_type = "list" THEN (IF raw.kind = "json_list" THEN PyList(raw.items) ELSE PyValue("raises", "", <<>>))
     ELSE RawAsStr(raw)

\* ConfigStore._validate_value: Settings.model_validate({key: value})
\* accepts the values of the field's annotation
Validates(key, value) ==
  LET annotation == Annotation(key)
  IN IF annotation.origin = "None" THEN value.type = annotation.name
     ELSE IF annotation.origin = "Union" THEN \E i \in DOMAIN annotation.args : value.type = annotation.args[i].name
     ELSE value.type = annotation.origin

NoCall_config == [op |-> "none", key |-> "", value |-> NoValue, ok |-> FALSE, from_redis |-> FALSE]

\* ConfigStore.set: validate, then hset of the serialized value; raises
\* on an invalid value, without Redis and on a failed write
ConfigStoreSet(key, value, wr) ==
  /\ lastConfig = NoCall_config
  /\ IF Validates(key, value) /\ redis_available /\ wr = "ok"
     THEN /\ config_hash' = [config_hash EXCEPT ![key] = _serialize(value)]
          /\ last_set' = [last_set EXCEPT ![key] = value]
          /\ lastConfig' = [op |-> "set", key |-> key, value |-> value, ok |-> TRUE, from_redis |-> FALSE]
     ELSE /\ lastConfig' = [op |-> "set", key |-> key, value |-> value, ok |-> FALSE, from_redis |-> FALSE]
          /\ UNCHANGED <<config_hash, last_set>>
  /\ UNCHANGED gwvars

\* ConfigStore.get: the deserialized override, or the default when there
\* is none, when Redis is unavailable and when the read or the
\* deserialization raises
ConfigStoreGet(key, rd) ==
  LET hit == redis_available /\ rd = "ok" /\ config_hash[key] # NoRaw /\ _deserialize(key, config_hash[key]).type # "raises"
  IN /\ lastConfig = NoCall_config
     /\ lastConfig' = [op |-> "get", key |-> key, value |-> IF hit THEN _deserialize(key, config_hash[key]) ELSE Default(key), ok |-> TRUE, from_redis |-> hit]
     /\ UNCHANGED <<config_hash, last_set, gwvars>>

\* ConfigStore.reset: hdel of the override
ConfigStoreReset(key, wr) ==
  /\ lastConfig = NoCall_config
  /\ IF redis_available /\ wr = "ok"
     THEN /\ config_hash' = [config_hash EXCEPT ![key] = NoRaw]
          /\ last_set' = [last_set EXCEPT ![key] = NoValue]
          /\ lastConfig' = [op |-> "reset", key |-> key, value |-> NoValue, ok |-> TRUE, from_redis |-> FALSE]
     ELSE /\ lastConfig' = [op |-> "reset", key |-> key, value |-> NoValue, ok |-> FALSE, from_redis |-> FALSE]
          /\ UNCHANGED <<config_hash, last_set>>
  /\ UNCHANGED gwvars

\* the call returns to its caller
ConfigReturn ==
  /\ lastConfig # NoCall_config
  /\ lastConfig' = NoCall_config
  /\ UNCHANGED <<config_hash, last_set, gwvars>>

\* ConfigStore.__init__ and an empty guardian:config hash
ConfigInit ==
  /\ config_hash = [k \in ConfigKeys |-> NoRaw]
  /\ last_set = [k \in ConfigKeys |-> NoValue]
  /\ lastConfig = NoCall_config

ConfigNext ==
  \/ \E key \in ConfigKeys, value \in ConfigValues, wr \in RedisOutcomes : ConfigStoreSet(key, value, wr)
  \/ \E key \in ConfigKeys, rd \in RedisOutcomes : ConfigStoreGet(key, rd)
  \/ \E key \in ConfigKeys, wr \in RedisOutcomes : ConfigStoreReset(key, wr)
  \/ ConfigReturn

\* ------------------------------------------------------------------------
\* drain_node (k8s_client.py): the API calls it issues and the lists it
\* returns
\* ------------------------------------------------------------------------
\* pods.items of list_pod_for_all_namespaces(spec.nodeName=name), in order
RECURSIVE PodLists(_)
PodLists(n) == IF n = 0 THEN {<<>>} ELSE PodLists(n - 1) \cup {Append(l, p) : l \in {x \in PodLists(n - 1) : Len(x) = n - 1}, p \in PodUniverse}
NodePodLists == {l \in PodLists(Cardinality(PodUniverse)) : \A i, j \in DOMAIN l : i # j => l[i] # l[j]}
PodsOf(items) == {items[i] : i \in DOMAIN items}

\* the reason drain_node skips a pod without an eviction call, "" if none
DrainSkipReasonNoDaemonSet(pod) ==
  IF pod.namespace \in protected_namespaces THEN "protected namespace"
  ELSE ""
DrainSkipReason(pod) ==
  IF pod.namespace \in protected_namespaces THEN "protected namespace"
  ELSE IF pod.daemonset THEN "DaemonSet"
  ELSE ""

Call(api, pod) == [api |-> api, pod |-> pod]
NoPod == [namespace |-> "", name |-> "", daemonset |-> FALSE]

\* the for loop over pods.items: calls issued, evicted and skipped so far
RECURSIVE DrainLoop(_, _, _)
DrainLoop(items, failing, acc) ==
  IF items = <<>> THEN acc
  ELSE LET pod == Head(items)
           reason == DrainSkipReason(pod)
       IN DrainLoop(Tail(items), failing,
            IF reason # "" THEN [acc EXCEPT !.skipped = Append(@, [pod |-> pod, reason |-> reason])]
            ELSE IF pod \in failing
                 THEN [acc EXCEPT !.calls = Append(@, Call("create_namespaced_pod_eviction", pod)),
                                  !.skipped = Append(@, [pod |-> pod, reason |-> "eviction failed"])]
                 ELSE [acc EXCEPT !.calls = Append(@, Call("create_namespaced_pod_eviction", pod)),
                                  !.evicted = Append(@, pod)])

NoDrain == [ran |-> FALSE, items |-> <<>>, calls |-> <<>>, evicted |-> <<>>, skipped |-> <<>>]

VARIABLES
  lastDrain \* the API calls of the last drain_node and its evicted and skipped lists

drainvars == <<lastDrain>>

\* the try block of drain_node: patch_node, the pod listing, the loop
DrainRun(items, failing) ==
  DrainLoop(items, failing, [ran |-> TRUE, items |-> items, calls |-> <<Call("patch_node", NoPod), Call("list_pod_for_all_namespaces", NoPod)>>, evicted |-> <<>>, skipped |-> <<>>])

\* drain_node with its result dict; patch_node is the call that raises
\* when the operation fails
DrainNodeTraced(name, rd, items, failing) ==
  /\ lastDrain = NoDrain
  /\ drain_node_pods(name, rd, PodsOf(items))
  /\ lastDrain' = IF lastResult'.success THEN DrainRun(items, failing)
                  ELSE IF lastResult'.error = "api_error" THEN [NoDrain EXCEPT !.ran = TRUE, !.calls = <<Call("patch_node", NoPod)>>]
                  ELSE [NoDrain EXCEPT !.ran = TRUE]

DrainReturn ==
  /\ ReturnToCaller
  /\ lastDrain' = NoDrain

DrainInit == lastDrain = NoDrain

DrainNext ==
  \/ \E name \in NodeNames, rd \in RedisOutcomes, items \in NodePodLists, failing \in SUBSET PodUniverse : DrainNodeTraced(name, rd, items, failing)
  \/ DrainReturn
  \/ Tick /\ UNCHANGED drainvars

\* ------------------------------------------------------------------------
\* Escalation classifier (escalation_classifier.py); its
\* _recurring_threshold is settings.escalation_threshold (api.py)
\* ------------------------------------------------------------------------
MaxOccurrences == 3

QUICK_FIX_SOURCES == {"k8s_crashloop", "gatus", "daemonset"}
LONG_TERM_SOURCES == {"node_condition"}
QUICK_FIX_KEYWORDS == {"restart", "crashloop", "oomkilled", "backoff", "failed job", "rollout stuck", "unhealthy endpoint"}
LONG_TERM_KEYWORDS == {"memory limit", "resource limit", "config change", "recurring", "disk pressure", "pid pressure", "node not ready"}

\* the signals classified: sources, severities and lower-cased texts
SignalSources == {"k8s_crashloop", "node_condition", "prometheus"}
Severities == {"info", "warning", "critical"}
SignalTexts == {"pod restart loop", "memory limit reached after restart", "high latency"}
ClassifierKeys == {"prom:cpu", "crashloop:default/web"}
\* the counts SelfTuner._issue_counts may hold for a key
ExternalCounts == {0, 1, 3}

\* kw in text, for the texts above
KeywordsIn(text) ==
  CASE text = "pod restart loop" -> {"restart"}
    [] text = "memory limit reached after restart" -> {"memory limit", "restart"}
    [] OTHER -> {}

VARIABLES
  _occurrence_counts, \* EscalationClassifier._occurrence_counts
  lastClassify        \* the last classify call: its inputs, counts and level

clsvars == <<_occurrence_counts, lastClassify>>

\* the rules of classify after the counts are taken
ClassifyLevelSourceFirst(source, severity, text, total_count) ==
  IF source \in LONG_TERM_SOURCES THEN "long_term"
  ELSE IF source \in QUICK_FIX_SOURCES THEN "quick_fix"
  ELSE IF total_count >= escalation_threshold THEN "long_term"
  ELSE IF KeywordsIn(text) \cap LONG_TERM_KEYWORDS # {} THEN "long_term"
  ELSE IF KeywordsIn(text) \cap QUICK_FIX_KEYWORDS # {} THEN "quick_fix"
  ELSE IF severity = "critical" THEN "quick_fix"
  ELSE IF severity = "info" THEN "observation_only"
  ELSE "quick_fix"
ClassifyLevel(source, severity, text, total_count) ==
  IF total_count >= escalation_threshold THEN "long_term"
  ELSE IF source \in LONG_TERM_SOURCES THEN "long_term"
  ELSE IF source \in QUICK_FIX_SOURCES THEN "quick_fix"
  ELSE IF KeywordsIn(text) \cap LONG_TERM_KEYWORDS # {} THEN "long_term"
  ELSE IF KeywordsIn(text) \cap QUICK_FIX_KEYWORDS # {} THEN "quick_fix"
  ELSE IF severity = "critical" THEN "quick_fix"
  ELSE IF severity = "info" THEN "observation_only"
  ELSE "quick_fix"

\* EscalationClassifier.classify; by_key and by_source are
\* issue_counts.get(dedupe_key, 0) and issue_counts.get(source, 0)
classify(source, severity, text, dedupe_key, by_key, by_source) ==
  LET internal == _occurrence_counts[dedupe_key] + 1
      external_count == Max(by_key, by_source)
      total_count == Max(internal, external_count)
  IN /\ _occurrence_counts[dedupe_key] < MaxOccurrences
     /\ _occurrence_counts' = [_occurrence_counts EXCEPT ![dedupe_key] = internal]
     /\ lastClassify' = [called |-> TRUE, source |-> source, severity |-> severity, text |-> text, dedupe_key |-> dedupe_key,
                         internal |-> internal, by_key |-> by_key, by_source |-> by_source,
                         level |-> ClassifyLevel(source, severity, text, total_count)]

\* EscalationClassifier.__init__
ClassifierInit ==
  /\ _occurrence_counts = [k \in ClassifierKeys |-> 0]
  /\ lastClassify = [called |-> FALSE, source |-> "", severity |-> "", text |-> "", dedupe_key |-> "", internal |-> 0, by_key |-> 0, by_source |-> 0, level |-> ""]

ClassifierNext ==
  \E source \in SignalSources, severity \in Severities, text \in SignalTexts, dedupe_key \in ClassifierKeys, by_key \in ExternalCounts, by_source \in ExternalCounts :
    classify(source, severity, text, dedupe_key, by_key, by_source)

\* ------------------------------------------------------------------------
\* Audit log on its own: AuditLog.log called for a stream of actions
\* ------------------------------------------------------------------------
MaxAuditLog == 4

AuditedActions == {"restart_pod", "scale_deployment"}
AuditResults == {"success", "failed"}

\* AuditLog.log: append to entries, then to Redis when it is available
log(action, target, ns, result, wr) ==
  /\ CallerIdle
  /\ Len(entries) < MaxAuditLog
  /\ entries' = AuditLogLocal(Entry(action, target, ns, result))
  /\ redis_audit' = append_audit_entry(Entry(action, target, ns, result), wr)
  /\ UNCHANGED <<now, settingsVars, max_actions, store_max, actions, redis_available, redis_actions, approvalVars, lastResult>>

AuditNext ==
  \/ \E action \in AuditedActions, result \in AuditResults, wr \in RedisOutcomes : log(action, "web", "default", result, wr)
  \/ Tick

\* ------------------------------------------------------------------------
\* Rate-limit check on its own: what can_act saw and what it answered
\* ------------------------------------------------------------------------
VARIABLES
  lastCheck \* the last can_act: the Redis outcome, the deque length, the verdict

rlvars == <<lastCheck>>

NoCheck == [called |-> FALSE, redis_available |-> FALSE, rd |-> "ok", local |-> 0, max_actions |-> 0, can_act |-> FALSE]

\* ActionRateLimiter.can_act as restart_pod calls it: the deque after
\* _cleanup_old, the refreshed maximum and the verdict
can_act(rd) == [called |-> TRUE, redis_available |-> redis_available, rd |-> rd, local |-> Len(CleanupOld(actions)), max_actions |-> RefreshMaxActions, can_act |-> CanAct(rd)]

\* restart_pod in an unprotected namespace, which always asks can_act
RestartPodChecked(name, rd) ==
  /\ restart_pod("default", name, rd)
  /\ lastCheck' = can_act(rd)

RateLimitInit == lastCheck = NoCheck

RateLimitNext ==
  \/ \E name \in Names, rd \in RedisOutcomes : RestartPodChecked(name, rd)
  \/ ReturnToCaller /\ UNCHANGED rlvars
  \/ Tick /\ UNCHANGED rlvars

\* ------------------------------------------------------------------------
\* Approvals API (api.py): listing and deciding, step by step between the
\* awaits of the handlers. Nothing in the program stores a PendingApproval,
\* so the records are those another writer left in the Redis hash
\* guardian:pending_approvals, which the lifespan hook loads at startup
\* ------------------------------------------------------------------------
MaxDecisions == 2

ApprovalIds == {"a1", "a2"}
Decisions == {"approved", "rejected"}
PersistedApprovals == <<[id |-> "a1", status |-> "pending"], [id |-> "a2", status |-> "pending"]>>

NoSnapshot == [read |-> FALSE, persisted |-> <<>>]
NoUpdate == [id |-> "", status |-> ""]

VARIABLES
  get_snapshot,     \* get_approvals between its await and its assignment: persisted
  update_in_flight, \* approve/reject between the in-memory write and the Redis update
  decisions,        \* per approval id, the decisions the API accepted, in order
  lastReply         \* HTTP status of the last approve or reject

apprvars == <<get_snapshot, update_in_flight, decisions, lastReply>>

apprRest == <<now, settingsVars, max_actions, store_max, actions, redis_available, redis_actions, entries, redis_audit, lastResult>>

\* the list with the status of the entry of this id replaced
WithStatus(list, id, status) == [i \in DOMAIN list |-> IF list[i].id = id THEN [list[i] EXCEPT !.status = status] ELSE list[i]]
StatusOf(list, id) == IF \E i \in DOMAIN list : list[i].id = id THEN list[CHOOSE i \in DOMAIN list : list[i].id = id].status ELSE "missing"

\* get_approvals up to the return of redis.get_pending_approvals(); a
\* failed read returns [] there
GetApprovalsRead(rd) ==
  /\ ~get_snapshot.read
  /\ get_snapshot' = [read |-> TRUE, persisted |-> IF redis_available /\ rd = "ok" THEN redis_pending ELSE <<>>]
  /\ UNCHANGED <<apprRest, approvalVars, update_in_flight, decisions, lastReply>>

\* get_approvals from there: app_state.pending_approvals = persisted when
\* persisted is not empty, then the listing of the pending entries
GetApprovalsReturn ==
  /\ get_snapshot.read
  /\ pending_approvals' = IF get_snapshot.persisted # <<>> THEN get_snapshot.persisted ELSE pending_approvals
  /\ lastListing' = SelectSeq(pending_approvals', LAMBDA a : a.status = "pending")
  /\ get_snapshot' = NoSnapshot
  /\ UNCHANGED <<apprRest, redis_pending, update_in_flight, decisions, lastReply>>

\* approve_action / reject_action up to the await of
\* redis.update_pending_approval: 404 for an unknown id, 409 for an entry
\* that is not pending, else the in-memory status is set
DecideAction(id, status) ==
  /\ update_in_flight = NoUpdate
  /\ Len(decisions[id]) < MaxDecisions
  /\ IF StatusOf(pending_approvals, id) = "missing"
     THEN lastReply' = "404" /\ UNCHANGED <<pending_approvals, update_in_flight, decisions>>
     ELSE IF StatusOf(pending_approvals, id) # "pending"
     THEN lastReply' = "409" /\ UNCHANGED <<pending_approvals, update_in_flight, decisions>>
     ELSE /\ pending_approvals' = WithStatus(pending_approvals, id, status)
          /\ update_in_flight' = [id |-> id, status |-> status]
          /\ decisions' = [decisions EXCEPT ![id] = Append(@, status)]
          /\ lastReply' = "200"
  /\ UNCHANGED <<apprRest, redis_pending, lastListing, get_snapshot>>

approve_action(id) == DecideAction(id, "approved")
reject_action(id) == DecideAction(id, "rejected")

\* RedisClient.update_pending_approval: hget, hset of the entry with the
\* new status; nothing without Redis, a raised error is logged and dropped
update_pending_approval(wr) ==
  /\ update_in_flight # NoUpdate
  /\ redis_pending' = IF redis_available /\ wr = "ok" THEN WithStatus(redis_pending, update_in_flight.id, update_in_flight.status) ELSE redis_pending
  /\ update_in_flight' = NoUpdate
  /\ UNCHANGED <<apprRest, pending_approvals, lastListing, get_snapshot, decisions, lastReply>>

ApprovalsIdle ==
  /\ get_snapshot = NoSnapshot
  /\ update_in_flight = NoUpdate
  /\ decisions = [id \in ApprovalIds |-> <<>>]
  /\ lastReply = "none"

\* the lifespan hook has loaded the persisted approvals
ApprovalsInit ==
  /\ now = 0
  /\ protected_namespaces = DefaultProtected
  /\ require_approval_for = DefaultApproval
  /\ max_actions = MaxBudget
  /\ store_max = MaxBudget
  /\ actions = <<>>
  /\ redis_available = TRUE
  /\ redis_actions = <<>>
  /\ entries = <<>>
  /\ redis_audit = <<>>
  /\ pending_approvals = PersistedApprovals
  /\ redis_pending = PersistedApprovals
  /\ lastListing = <<>>
  /\ lastResult = NoResult
  /\ ApprovalsIdle

ApprovalsNext ==
  \/ \E rd \in RedisOutcomes : GetApprovalsRead(rd)
  \/ GetApprovalsReturn
  \/ \E id \in ApprovalIds : approve_action(id)
  \/ \E id \in ApprovalIds : reject_action(id)
  \/ \E wr \in RedisOutcomes : update_pending_approval(wr)

\* ------------------------------------------------------------------------
\* restart_pod called by investigations that run as concurrent tasks of one
\* event loop (k8s_client.py): a task runs until it awaits something that
\* suspends, and here only the Redis calls suspend
\* ------------------------------------------------------------------------
MaxCalls == 3

Investigations == {"inv1", "inv2"}

NoLocals == [pc |-> "idle", can_act |-> FALSE, call |-> 0, entry |-> Entry("none", "", "", "none")]

VARIABLES
  inv_locals,         \* per investigation: where its restart_pod is and its locals
  orchestrator_calls, \* delete_namespaced_pod calls in the order the API server got them
  log_order           \* for each element of AuditLog.entries, the call it records

concvars == <<inv_locals, orchestrator_calls, log_order>>

concRest == <<settingsVars, store_max, redis_available, approvalVars, lastResult>>

ApiOutcomes == {"success", "failed"}

\* the orchestrator call and what follows without suspension: on success
\* record_action appends to the deque and awaits zadd, on ApiException
\* AuditLog.log appends the failed entry and awaits the Redis append
ExecuteCall(c, name, outcome) ==
  LET call == Len(orchestrator_calls) + 1
  IN /\ orchestrator_calls' = Append(orchestrator_calls, [investigation |-> c, target |-> name, at |-> now, success |-> outcome = "success"])
     /\ IF outcome = "success"
        THEN /\ actions' = RecordActionLocal
             /\ inv_locals' = [inv_locals EXCEPT ![c] = [pc |-> "zadd", can_act |-> TRUE, call |-> call, entry |-> Entry("restart_pod", name, "default", "success")]]
             /\ UNCHANGED <<entries, log_order>>
        ELSE /\ actions' = CleanupOld(actions)
             /\ entries' = AuditLogLocal(Entry("restart_pod", name, "default", "failed"))
             /\ log_order' = Append(log_order, call)
             /\ inv_locals' = [inv_locals EXCEPT ![c] = [pc |-> "lpush", can_act |-> TRUE, call |-> call, entry |-> Entry("restart_pod", name, "default", "failed")]]

\* without Redis nothing in restart_pod suspends: check, call, record and
\* log run in one piece
RestartPodNoRedis(c, name, outcome) ==
  /\ ~redis_available
  /\ inv_locals[c].pc = "idle"
  /\ Len(orchestrator_calls) < MaxCalls
  /\ max_actions' = RefreshMaxActions
  /\ IF Len(CleanupOld(actions)) < RefreshMaxActions
     THEN /\ orchestrator_calls' = Append(orchestrator_calls, [investigation |-> c, target |-> name, at |-> now, success |-> outcome = "success"])
          /\ actions' = IF outcome = "success" THEN RecordActionLocal ELSE CleanupOld(actions)
          /\ entries' = AuditLogLocal(Entry("restart_pod", name, "default", outcome))
          /\ log_order' = Append(log_order, Len(orchestrator_calls) + 1)
     ELSE /\ actions' = CleanupOld(actions)
          /\ UNCHANGED <<orchestrator_calls, entries, log_order>>
  /\ UNCHANGED <<now, concRest, redis_actions, redis_audit, inv_locals>>

\* with Redis: can_act up to the return of get_actions_in_window, which
\* prunes the sorted set and counts it
CanActRead(c) ==
  /\ redis_available
  /\ inv_locals[c].pc = "idle"
  /\ Len(orchestrator_calls) + Cardinality({d \in Investigations : inv_locals[d].pc = "counted"}) < MaxCalls
  /\ max_actions' = RefreshMaxActions
  /\ actions' = CleanupOld(actions)
  /\ redis_actions' = RedisPrune(redis_actions)
  /\ inv_locals' = [inv_locals EXCEPT ![c] = [NoLocals EXCEPT !.pc = "counted", !.can_act = Len(RedisPrune(redis_actions)) < RefreshMaxActions]]
  /\ UNCHANGED <<now, concRest, entries, redis_audit, orchestrator_calls, log_order>>

\* the task resumes with the count: "Rate limit exceeded", or the call
RestartPodResume(c, name, outcome) ==
  /\ inv_locals[c].pc = "counted"
  /\ IF inv_locals[c].can_act
     THEN ExecuteCall(c, name, outcome)
     ELSE /\ inv_locals' = [inv_locals EXCEPT ![c] = NoLocals]
          /\ UNCHANGED <<actions, entries, orchestrator_calls, log_order>>
  /\ UNCHANGED <<now, concRest, max_actions, redis_actions, redis_audit>>

\* zadd returns: record_action is done, AuditLog.log appends the entry and
\* awaits the Redis append
ZaddReturns(c) ==
  /\ inv_locals[c].pc = "zadd"
  /\ redis_actions' = Append(redis_actions, orchestrator_calls[inv_locals[c].call].at)
  /\ entries' = AuditLogLocal(inv_locals[c].entry)
  /\ log_order' = Append(log_order, inv_locals[c].call)
  /\ inv_locals' = [inv_locals EXCEPT ![c].pc = "lpush"]
  /\ UNCHANGED <<now, concRest, max_actions, actions, redis_audit, orchestrator_calls>>

\* lpush and ltrim return: restart_pod returns its result
LpushReturns(c) ==
  /\ inv_locals[c].pc = "lpush"
  /\ redis_audit' = append_audit_entry(inv_locals[c].entry, "ok")
  /\ inv_locals' = [inv_locals EXCEPT ![c] = NoLocals]
  /\ UNCHANGED <<now, concRest, max_actions, actions, redis_actions, entries, orchestrator_calls, log_order>>

ConcurrentIdle ==
  /\ inv_locals = [c \in Investigations |-> NoLocals]
  /\ orchestrator_calls = <<>>
  /\ log_order = <<>>

ConcurrentNext ==
  \/ \E c \in Investigations, name \in Names, outcome \in ApiOutcomes : RestartPodNoRedis(c, name, outcome)
  \/ \E c \in Investigations : CanActRead(c)
  \/ \E c \in Investigations, name \in Names, outcome \in ApiOutcomes : RestartPodResume(c, name, outcome)
  \/ \E c \in Investigations : ZaddReturns(c)
  \/ \E c \in Investigations : LpushReturns(c)
  \/ Tick /\ UNCHANGED concvars

\* ------------------------------------------------------------------------
\* Debounce tasks as asyncio tasks (incident_correlator.py): every task
\* schedule_investigation created, the one _debounce_tasks holds per key,
\* and the investigation callback a woken task awaits
\* ------------------------------------------------------------------------
VARIABLES
  created_tasks, \* every task created: its Incident, its key and its status
  task_of_key    \* per key, the index in created_tasks of _debounce_tasks[key]

timervars == <<created_tasks, task_of_key>>

\* Task.cancel() on a task that is not done: a sleeping task is cancelled,
\* a task awaiting the investigation callback gets CancelledError there
CancelNever(tasks, i) == tasks
Cancel(tasks, i) ==
  IF tasks[i].status = "pending" THEN [tasks EXCEPT ![i].status = "cancelled"]
  ELSE IF tasks[i].status = "running" THEN [tasks EXCEPT ![i].status = "aborted"]
  ELSE tasks

\* expire_old on the tasks: pop and cancel the task of every removed key
RECURSIVE ExpireTasks(_, _, _)
ExpireTasks(tasks, refs, gone) ==
  IF gone \cap DOMAIN refs = {} THEN tasks
  ELSE LET key == CHOOSE k \in gone \cap DOMAIN refs : TRUE
       IN ExpireTasks(Cancel(tasks, refs[key]), refs, gone \ {key})

\* schedule_investigation on the tasks: cancel the key's existing task,
\* then create_task(_debounced())
ScheduleTask(tasks, refs, key, id) ==
  Append(IF key \in DOMAIN refs THEN Cancel(tasks, refs[key]) ELSE tasks, [incident |-> id, key |-> key, status |-> "pending"])

\* the webhook with the tasks it cancels and creates
WebhookTasks(alert) ==
  /\ alertmanager_webhook(alert)
  /\ LET id == CorrelateTarget(alert)
         heap1 == CorrelateHeap(alert)
         gone == ExpiredKeys(heap1, CorrelateIndex(alert))
         key == heap1[id].correlation_key
         tasks1 == ExpireTasks(created_tasks, task_of_key, gone)
         refs1 == [k \in DOMAIN task_of_key \ gone |-> task_of_key[k]]
         tasks2 == ScheduleTask(tasks1, refs1, key, id)
     IN /\ created_tasks' = tasks2
        /\ task_of_key' = [k \in DOMAIN refs1 \cup {key} |-> IF k = key THEN Len(tasks2) ELSE refs1[k]]

\* _debounced after its sleep: with the Incident not yet investigated it
\* awaits the investigation callback, else it is done
DebounceWake(key) ==
  /\ DebounceFire(key)
  /\ created_tasks' = [created_tasks EXCEPT ![task_of_key[key]].status = IF Len(fired') > Len(fired) THEN "running" ELSE "done"]
  /\ UNCHANGED task_of_key

\* the investigation callback returns and the task is done
CallbackReturns(i) ==
  /\ i \in DOMAIN created_tasks
  /\ created_tasks[i].status = "running"
  /\ created_tasks' = [created_tasks EXCEPT ![i].status = "done"]
  /\ UNCHANGED <<now, corrvars, task_of_key>>

TimerIdle ==
  /\ created_tasks = <<>>
  /\ task_of_key = <<>>

TimerNext ==
  \/ CorrTick /\ UNCHANGED timervars
  \/ \E alert \in Alerts : WebhookTasks(alert)
  \/ \E key \in {_correlation_key(a) : a \in Alerts} : DebounceWake(key)
  \/ \E i \in 1..MaxAlerts : CallbackReturns(i)

\* ------------------------------------------------------------------------
\* _dispatch_batch (continuous_monitor.py) step by step: record_issue for
\* every signal, then per group the classification, auto_escalate or the
\* investigation; and the investigations that run as tasks of their own
\* ------------------------------------------------------------------------
MaxDispatches == 2

\* the signals of the batches: all of group default/web
CrashSignal == [source |-> "k8s_crashloop", severity |-> "warning", text |-> "pod restart loop", dedupe_key |-> "crashloop:default/web/app"]
NodeSignal == [source |-> "node_condition", severity |-> "warning", text |-> "high latency", dedupe_key |-> "node_condition:default/web"]
InfoSignal == [source |-> "prometheus", severity |-> "info", text |-> "high latency", dedupe_key |-> "prom:cpu"]
Batches == {<<CrashSignal>>, <<NodeSignal>>, <<InfoSignal>>, <<NodeSignal, CrashSignal>>, <<InfoSignal, NodeSignal>>}
DispatchGroupKey == "default/web"

VARIABLES
  dispatch,   \* _dispatch_batch in progress: where it is, its batch, its loop index
  dispatched, \* per dispatched group: the levels of its signals, its level, what became of it
  running     \* the investigations running: a serial number and the thread id

dispvars == <<dispatch, dispatched, running>>

NoDispatch == [pc |-> "idle", batch |-> <<>>, i |-> 0]

\* dict.get(key, 0)
Get(dict, key) == IF key \in DOMAIN dict THEN dict[key] ELSE 0
Put(dict, key, value) == [k \in DOMAIN dict \cup {key} |-> IF k = key THEN value ELSE dict[k]]

\* the classify calls of the for loop over the signals of the group: the
\* levels in order
RECURSIVE ClassifyLevels(_, _)
ClassifyLevels(signals, counts) ==
  IF signals = <<>> THEN <<>>
  ELSE LET sig == Head(signals)
           internal == Get(counts, sig.dedupe_key) + 1
           external_count == Max(Get(_issue_counts, sig.dedupe_key), Get(_issue_counts, sig.source))
       IN <<ClassifyLevel(sig.source, sig.severity, sig.text, Max(internal, external_count))>> \o ClassifyLevels(Tail(signals), Put(counts, sig.dedupe_key, internal))
\* and _occurrence_counts after them
RECURSIVE ClassifyCounts(_, _)
ClassifyCounts(signals, counts) ==
  IF signals = <<>> THEN counts
  ELSE ClassifyCounts(Tail(signals), Put(counts, Head(signals).dedupe_key, Get(counts, Head(signals).dedupe_key) + 1))

\* level.value > escalation_level.value: the values are the strings
\* "long_term" < "observation_only" < "quick_fix"
ValueRank(level) == CASE level = "long_term" -> 1 [] level = "observation_only" -> 2 [] level = "quick_fix" -> 3 [] OTHER -> 0
ValueGreater(a, b) == ValueRank(a) > ValueRank(b)

\* escalation_level after the loop: None ("") before the first signal
RECURSIVE GroupLevel(_, _)
GroupLevel(levels, escalation_level) ==
  IF levels = <<>> THEN escalation_level
  ELSE GroupLevel(Tail(levels), IF escalation_level = "" \/ ValueGreater(Head(levels), escalation_level) THEN Head(levels) ELSE escalation_level)

\* f"cm-{group_key.replace('/', '-')}"
MonitorThreadId(group_key) == <<"cm", group_key>>
\* request.thread_id or f"investigate-{now:%Y%m%d%H%M%S}"
ApiThreadId(requested) == IF requested # "" THEN <<requested, "">> ELSE <<"investigate", now>>

Started == Len(dispatched) + Cardinality(running)

\* _dispatch_batch is entered with a batch
DispatchBegin(b) ==
  /\ dispatch.pc = "idle"
  /\ Len(dispatched) < MaxDispatches
  /\ dispatch' = [pc |-> "record", batch |-> b, i |-> 1]
  /\ UNCHANGED <<gwvars, tunervars, clsvars, dispatched, running>>

\* await self._self_tuner.record_issue(sig.dedupe_key, ..., True)
DispatchRecord(rd, sub, wr) ==
  /\ dispatch.pc = "record"
  /\ record_issue(dispatch.batch[dispatch.i].dedupe_key, TRUE, rd, sub, wr)
  /\ dispatch' = IF dispatch.i = Len(dispatch.batch) THEN [dispatch EXCEPT !.pc = "group"] ELSE [dispatch EXCEPT !.i = @ + 1]
  /\ UNCHANGED <<clsvars, dispatched, running>>

\* the body of the loop over the groups, for the one group of the batch
DispatchGroup(rd, sub, wr) ==
  LET levels == ClassifyLevels(dispatch.batch, _occurrence_counts)
      level == GroupLevel(levels, "")
      escalates == level = "long_term" /\ _dev_controller
  IN /\ dispatch.pc = "group"
     /\ _occurrence_counts' = ClassifyCounts(dispatch.batch, _occurrence_counts)
     /\ IF escalates
        THEN /\ auto_escalate(DispatchGroupKey, rd, sub, wr)
             /\ UNCHANGED running
        ELSE /\ running' = running \cup {[serial |-> Len(dispatched) + 1, thread_id |-> MonitorThreadId(DispatchGroupKey)]}
             /\ UNCHANGED <<goals, redis_escalated>>
     /\ dispatched' = Append(dispatched, [group |-> DispatchGroupKey, levels |-> levels, level |-> level,
                                          goal |-> escalates /\ Submits(DispatchGroupKey, rd, sub), investigation |-> ~escalates])
     /\ dispatch' = NoDispatch
     /\ UNCHANGED <<gwvars, _dev_controller, _issue_counts, redis_patterns, recordings, lastClassify>>

\* POST /api/v1/investigate awaits guardian.investigate_issue; a client
\* that names a thread id names one no running investigation has
ApiInvestigate(requested) ==
  /\ requested # "" => \A r \in running : r.thread_id # ApiThreadId(requested)
  /\ Cardinality({r \in running : r.serial > MaxDispatches}) < 2
  /\ running' = running \cup {[serial |-> MaxDispatches + 1 + Cardinality({r \in running : r.serial > MaxDispatches}), thread_id |-> ApiThreadId(requested)]}
  /\ UNCHANGED <<gwvars, tunervars, clsvars, dispatch, dispatched>>

\* an investigation returns
InvestigationReturns(r) ==
  /\ r \in running
  /\ running' = running \ {r}
  /\ UNCHANGED <<gwvars, tunervars, clsvars, dispatch, dispatched>>

DispatchIdle ==
  /\ dispatch = NoDispatch
  /\ dispatched = <<>>
  /\ running = {}

DispatchNext ==
  \/ \E b \in Batches : DispatchBegin(b)
  \/ \E rd \in RedisOutcomes, sub \in SubmitResults, wr \in RedisOutcomes : DispatchRecord(rd, sub, wr)
  \/ \E rd \in RedisOutcomes, sub \in SubmitResults, wr \in RedisOutcomes : DispatchGroup(rd, sub, wr)
  \/ \E requested \in {"", "t1"} : ApiInvestigate(requested)
  \/ \E r \in running : InvestigationReturns(r)
  \/ Tick /\ UNCHANGED <<tunervars, clsvars, dispvars>>

\* ------------------------------------------------------------------------
\* ContinuousMonitor.start / stop and its three tasks on the one event
\* loop (continuous_monitor.py): a task runs from one await to the next
\* ------------------------------------------------------------------------
MaxQueue == 2

TaskNames == {"fast", "dispatcher", "watcher"}

VARIABLES
  _running,             \* ContinuousMonitor._running
  _event_watch_enabled, \* ContinuousMonitor._event_watch_enabled
  _tasks,               \* ContinuousMonitor._tasks, by name
  task_state,           \* per task: where it is, Task._must_cancel, how it ended
  stop_pc,              \* stop(): not called, awaiting gather, returned
  queued,               \* the number of signals in _anomaly_queue
  last_ran              \* the coroutine that ran last on the event loop

lifevars == <<_running, _event_watch_enabled, _tasks, task_state, stop_pc, queued, last_ran>>

Absent == [pc |-> "absent", must_cancel |-> FALSE, how |-> ""]
Created == [pc |-> "created", must_cancel |-> FALSE, how |-> ""]

\* `for event in w.stream(...)` is a synchronous generator: from the
\* moment the watcher enters it the thread of the event loop is inside the
\* watcher, and asyncio.Queue.put on the unbounded queue returns without
\* suspending
InStream(st) == st["watcher"].pc \in {"stream_wait", "stream_body"}
LoopFree == ~InStream(task_state)

\* `while self._running:` at the top of each task
LoopTop(t, pc) == IF _running THEN [t EXCEPT !.pc = pc] ELSE [t EXCEPT !.pc = "done", !.how = "flag"]

\* a task resumed at an await: CancelledError is thrown in if cancel() was
\* called, and `except asyncio.CancelledError: break` ends the task (in
\* the watcher's except handler it leaves the coroutine)
Resume(t, after) == IF t.must_cancel THEN [pc |-> "done", must_cancel |-> FALSE, how |-> "cancelled"] ELSE after

\* asyncio.gather(*self._tasks, return_exceptions=True) is done when any
\* one task is
GatherAnyDone(ts, st) == \E t \in ts : st[t].pc = "done"

\* asyncio.gather(*self._tasks, return_exceptions=True) is done
GatherDone(ts, st) == \A t \in ts : st[t].pc = "done"

\* ContinuousMonitor.start
start ==
  /\ ~_running /\ stop_pc = "idle" /\ _tasks = {}
  /\ _running' = TRUE
  /\ _tasks' = IF _event_watch_enabled THEN TaskNames ELSE {"fast", "dispatcher"}
  /\ task_state' = [t \in TaskNames |-> IF t = "watcher" /\ ~_event_watch_enabled THEN Absent ELSE Created]
  /\ last_ran' = "start"
  /\ UNCHANGED <<_event_watch_enabled, stop_pc, queued>>

\* ContinuousMonitor.stop up to `await asyncio.gather`
stop ==
  /\ LoopFree
  /\ _running /\ stop_pc = "idle"
  /\ _running' = FALSE
  /\ task_state' = [t \in TaskNames |-> IF t \in _tasks /\ task_state[t].pc # "done" THEN [task_state[t] EXCEPT !.must_cancel = TRUE] ELSE task_state[t]]
  /\ stop_pc' = "gather"
  /\ last_ran' = "stop"
  /\ UNCHANGED <<_event_watch_enabled, _tasks, queued>>

\* stop after the gather: self._tasks.clear()
StopReturns ==
  /\ LoopFree
  /\ stop_pc = "gather"
  /\ GatherDone(_tasks, task_state)
  /\ stop_pc' = "returned"
  /\ _tasks' = {}
  /\ last_ran' = "stop"
  /\ UNCHANGED <<_running, _event_watch_enabled, task_state, queued>>

\* _fast_loop from one await to the next; the checks put n signals
FastStep(n) ==
  LET t == task_state["fast"]
      after == CASE t.pc = "created" -> LoopTop(t, "refresh")
                 [] t.pc = "refresh" -> [t EXCEPT !.pc = "sleep"]
                 [] t.pc = "sleep" -> [t EXCEPT !.pc = "checks"]
                 [] t.pc = "checks" -> [t EXCEPT !.pc = "tune"]
                 [] OTHER -> LoopTop(t, "refresh")
  IN /\ LoopFree
     /\ t.pc \in {"created", "refresh", "sleep", "checks", "tune"}
     /\ task_state' = [task_state EXCEPT !["fast"] = Resume(t, after)]
     /\ queued' = IF t.pc = "checks" /\ ~t.must_cancel THEN Min(queued + n, MaxQueue) ELSE queued
     /\ last_ran' = "fast"
     /\ UNCHANGED <<_running, _event_watch_enabled, _tasks, stop_pc>>

\* _anomaly_dispatcher from one await to the next: wait_for returns a
\* signal or times out, and the batch is flushed or not
DispatcherStep(flush) ==
  LET t == task_state["dispatcher"]
      after == CASE t.pc = "created" -> LoopTop(t, "get")
                 [] t.pc = "get" -> IF flush THEN [t EXCEPT !.pc = "dispatch"] ELSE LoopTop(t, "get")
                 [] OTHER -> LoopTop(t, "get")
  IN /\ LoopFree
     /\ t.pc \in {"created", "get", "dispatch"}
     /\ task_state' = [task_state EXCEPT !["dispatcher"] = Resume(t, after)]
     /\ queued' = IF t.pc = "get" /\ ~t.must_cancel /\ queued > 0 THEN queued - 1 ELSE queued
     /\ last_ran' = "dispatcher"
     /\ UNCHANGED <<_running, _event_watch_enabled, _tasks, stop_pc>>

\* _event_watcher is scheduled: its first step, after those of the two
\* tasks created before it, or after asyncio.sleep(5)
WatcherStep ==
  LET t == task_state["watcher"]
  IN /\ LoopFree
     /\ t.pc \in {"created", "backoff"}
     /\ t.pc = "created" => task_state["fast"].pc # "created" /\ task_state["dispatcher"].pc # "created"
     /\ task_state' = [task_state EXCEPT !["watcher"] = Resume(t, LoopTop(t, "stream_wait"))]
     /\ last_ran' = "watcher"
     /\ UNCHANGED <<_running, _event_watch_enabled, _tasks, stop_pc, queued>>

\* the stream yields an event, ends after timeout_seconds or raises
WatcherStream(outcome) ==
  LET t == task_state["watcher"]
  IN /\ t.pc = "stream_wait"
     /\ task_state' = [task_state EXCEPT !["watcher"] =
                         CASE outcome = "event" -> [t EXCEPT !.pc = "stream_body"]
                           [] outcome = "timeout" -> LoopTop(t, "stream_wait")
                           [] OTHER -> [t EXCEPT !.pc = "backoff"]]
     /\ last_ran' = "watcher"
     /\ UNCHANGED <<_running, _event_watch_enabled, _tasks, stop_pc, queued>>

\* the body of the for loop: the event is skipped or put as a signal
WatcherBody(put) ==
  LET t == task_state["watcher"]
  IN /\ t.pc = "stream_body"
     /\ task_state' = [task_state EXCEPT !["watcher"] = IF _running THEN [t EXCEPT !.pc = "stream_wait"] ELSE LoopTop(t, "stream_wait")]
     /\ queued' = IF put /\ _running THEN Min(queued + 1, MaxQueue) ELSE queued
     /\ last_ran' = "watcher"
     /\ UNCHANGED <<_running, _event_watch_enabled, _tasks, stop_pc>>

\* ContinuousMonitor.__init__
LifecycleInit ==
  /\ _running = FALSE
  /\ _event_watch_enabled \in BOOLEAN
  /\ _tasks = {}
  /\ task_state = [t \in TaskNames |-> Absent]
  /\ stop_pc = "idle"
  /\ queued = 0
  /\ last_ran = ""

LifecycleIdle == LifecycleInit /\ _event_watch_enabled = TRUE

LifecycleNext ==
  \/ start
  \/ stop
  \/ StopReturns
  \/ \E n \in 0..1 : FastStep(n)
  \/ \E flush \in BOOLEAN : DispatcherStep(flush)
  \/ WatcherStep
  \/ \E outcome \in {"event", "timeout", "error"} : WatcherStream(outcome)
  \/ \E put \in BOOLEAN : WatcherBody(put)

\* ------------------------------------------------------------------------
\* _anomaly_dispatcher (continuous_monitor.py) with signals that arrive
\* without end: the loop only compares time.time() with _seen_keys and
\* batch_start, so the state keeps the ages, which stop counting at the
\* window they are compared with
\* ------------------------------------------------------------------------
LoopKeys == {"crashloop:default/web/app", "prom:cpu"}

VARIABLES
  loop_queue,  \* _anomaly_queue: the dedupe keys of the signals in it
  seen_age,    \* per key: time.time() - _seen_keys.get(key, 0.0)
  loop_batch,  \* batch
  batch_age,   \* time.time() - batch_start
  wait_age,    \* the time the dispatcher has been in wait_for
  loop_pc,     \* the dispatcher is in wait_for ("get") or in _dispatch_batch
  handed       \* the batch _dispatch_batch was last called with

loopvars == <<loop_queue, seen_age, loop_batch, batch_age, wait_age, loop_pc, handed>>

InSeq(k, seq) == \E i \in DOMAIN seq : seq[i] = k

\* now - last_seen < self._suppression_window
SuppressedAge(age) == age < anomaly_suppression_window

\* batch and (time.time() - batch_start >= self._batch_window)
FlushDueAge(b, age) == b # <<>> /\ age >= anomaly_batch_window

\* the end of an iteration: the flush check, then _dispatch_batch or the
\* next wait_for
EndIteration(b, age) ==
  /\ loop_batch' = b
  /\ batch_age' = age
  /\ wait_age' = 0
  /\ IF FlushDueAge(b, age)
     THEN loop_pc' = "dispatch" /\ handed' = b
     ELSE loop_pc' = "get" /\ handed' = handed

\* a detector of the fast loop puts a signal
Arrive(k) ==
  /\ LoopFree
  /\ Len(loop_queue) < MaxQueue
  /\ loop_queue' = Append(loop_queue, k)
  /\ UNCHANGED <<seen_age, loop_batch, batch_age, wait_age, loop_pc, handed, lifevars>>

\* the event watcher runs, and puts no signal
WatcherRuns ==
  /\ WatcherStep \/ (\E outcome \in {"event", "timeout", "error"} : WatcherStream(outcome)) \/ WatcherBody(FALSE)
  /\ UNCHANGED loopvars

\* the event watcher puts the signal of a Warning event
WatcherPuts(k) ==
  /\ WatcherBody(TRUE)
  /\ Len(loop_queue) < MaxQueue
  /\ loop_queue' = Append(loop_queue, k)
  /\ UNCHANGED <<seen_age, loop_batch, batch_age, wait_age, loop_pc, handed>>

\* time passes
Elapse ==
  /\ \/ wait_age < anomaly_batch_window
     \/ loop_batch # <<>> /\ batch_age < anomaly_batch_window
     \/ \E k \in LoopKeys : seen_age[k] < anomaly_suppression_window
  /\ wait_age' = Min(wait_age + 1, anomaly_batch_window)
  /\ batch_age' = IF loop_batch # <<>> THEN Min(batch_age + 1, anomaly_batch_window) ELSE batch_age
  /\ seen_age' = [k \in LoopKeys |-> Min(seen_age[k] + 1, anomaly_suppression_window)]
  /\ UNCHANGED <<loop_queue, loop_batch, loop_pc, handed, lifevars>>

\* wait_for returns a signal
LoopGet ==
  /\ LoopFree
  /\ loop_pc = "get"
  /\ loop_queue # <<>>
  /\ loop_queue' = Tail(loop_queue)
  /\ IF SuppressedAge(seen_age[Head(loop_queue)])
     THEN /\ wait_age' = 0
          /\ UNCHANGED <<seen_age, loop_batch, batch_age, loop_pc, handed>>
     ELSE /\ seen_age' = [seen_age EXCEPT ![Head(loop_queue)] = 0]
          /\ EndIteration(Append(loop_batch, Head(loop_queue)), IF loop_batch = <<>> THEN 0 ELSE batch_age)
  /\ UNCHANGED lifevars

\* wait_for raises TimeoutError
LoopTimeout ==
  /\ LoopFree
  /\ loop_pc = "get"
  /\ loop_queue = <<>>
  /\ wait_age >= anomaly_batch_window
  /\ EndIteration(loop_batch, batch_age)
  /\ UNCHANGED <<loop_queue, seen_age, lifevars>>

\* _dispatch_batch returns: batch = []
LoopDispatchReturns ==
  /\ LoopFree
  /\ loop_pc = "dispatch"
  /\ loop_batch' = <<>>
  /\ batch_age' = 0
  /\ wait_age' = 0
  /\ loop_pc' = "get"
  /\ UNCHANGED <<loop_queue, seen_age, handed, lifevars>>

\* _anomaly_dispatcher before its first wait_for
LoopInit ==
  /\ loop_queue = <<>>
  /\ seen_age = [k \in LoopKeys |-> anomaly_suppression_window]
  /\ loop_batch = <<>>
  /\ batch_age = 0
  /\ wait_age = 0
  /\ loop_pc = "get"
  /\ handed = <<>>

\* the monitor after start(), the fast loop and the dispatcher at their
\* first await, the event watcher created if it is enabled
MonitorStarted ==
  /\ _running = TRUE
  /\ _event_watch_enabled \in BOOLEAN
  /\ _tasks = (IF _event_watch_enabled THEN TaskNames ELSE {"fast", "dispatcher"})
  /\ task_state = [t \in TaskNames |-> CASE t = "fast" -> [Created EXCEPT !.pc = "refresh"]
                                         [] t = "dispatcher" -> [Created EXCEPT !.pc = "get"]
                                         [] OTHER -> IF _event_watch_enabled THEN Created ELSE Absent]
  /\ stop_pc = "idle"
  /\ queued = 0
  /\ last_ran = "dispatcher"

LoopNext ==
  \/ \E k \in LoopKeys : Arrive(k)
  \/ WatcherRuns
  \/ \E k \in LoopKeys : WatcherPuts(k)
  \/ Elapse
  \/ LoopGet
  \/ LoopTimeout
  \/ LoopDispatchReturns

\* the other subsystems as constructed, for a specification of one of them
GatewayIdle ==
  /\ now = 0
  /\ protected_namespaces = DefaultProtected
  /\ require_approval_for = DefaultApproval
  /\ max_actions = MaxBudget
  /\ store_max = MaxBudget
  /\ actions = <<>>
  /\ redis_available = FALSE
  /\ redis_actions = <<>>
  /\ entries = <<>>
  /\ redis_audit = <<>>
  /\ pending_approvals = <<>>
  /\ redis_pending = <<>>
  /\ lastListing = <<>>
  /\ lastResult = NoResult

QuorumIdle ==
  /\ quorum_enabled = FALSE
  /\ lastQuorum = NoQuorum
  /\ lastVoters = NoVoters
  /\ lastTool = NoTool

\* the gateway's variables but the clock
gwRest == <<settingsVars, max_actions, store_max, actions, redis_available, redis_actions, entries, redis_audit, approvalVars, lastResult>>

vars == <<gwvars, monvars, qvars, corrvars, agentvars, tunervars, intervalvars, cfgvars, drainvars, clsvars, rlvars, apprvars, concvars, timervars, dispvars, lifevars, loopvars>>

\* ------------------------------------------------------------------------
\* Specifications
\* ------------------------------------------------------------------------
\* the default deployment: settings.redis_url is None, get_redis_client()
\* hands out a client that never becomes available
GatewaySpecInit == GatewayInit /\ ~redis_available /\ MonitorInit /\ QuorumIdle /\ CorrelatorInit /\ AgentIdle /\ TunerIdle /\ IntervalIdle /\ ConfigInit /\ DrainInit /\ ClassifierInit /\ RateLimitInit /\ ApprovalsIdle /\ ConcurrentIdle /\ TimerIdle /\ DispatchIdle /\ LifecycleIdle /\ LoopInit
GatewayStep == GatewayNext /\ UNCHANGED <<monvars, qvars, corrvars, agentvars, tunervars, intervalvars, cfgvars, drainvars, clsvars, rlvars, apprvars, concvars, timervars, dispvars, lifevars, loopvars>>
GatewaySpec == GatewaySpecInit /\ [][GatewayStep]_vars

\* a deployment with settings.redis_url set and the connection made
GatewayRedisSpecInit == GatewayInit /\ redis_available /\ MonitorInit /\ QuorumIdle /\ CorrelatorInit /\ AgentIdle /\ TunerIdle /\ IntervalIdle /\ ConfigInit /\ DrainInit /\ ClassifierInit /\ RateLimitInit /\ ApprovalsIdle /\ ConcurrentIdle /\ TimerIdle /\ DispatchIdle /\ LifecycleIdle /\ LoopInit
GatewayRedisSpec == GatewayRedisSpecInit /\ [][GatewayStep]_vars

MonitorNext ==
  \/ MonitorTick
  \/ \E k \in DedupeKeys : PutSignal(k)
  \/ DispatcherGet
  \/ DispatcherTimeout
  \/ cleanup_stale_keys
MonitorSpecInit == GatewayIdle /\ MonitorInit /\ QuorumIdle /\ CorrelatorInit /\ AgentIdle /\ TunerIdle /\ IntervalIdle /\ ConfigInit /\ DrainInit /\ ClassifierInit /\ RateLimitInit /\ ApprovalsIdle /\ ConcurrentIdle /\ TimerIdle /\ DispatchIdle /\ LifecycleIdle /\ LoopInit
MonitorStep == MonitorNext /\ UNCHANGED <<gwRest, qvars, corrvars, agentvars, tunervars, intervalvars, cfgvars, drainvars, clsvars, rlvars, apprvars, concvars, timervars, dispvars, lifevars, loopvars>>
MonitorSpec == MonitorSpecInit /\ [][MonitorStep]_vars

QuorumNext ==
  \/ \E tool \in QUORUM_REQUIRED_TOOLS, votes \in [1..num_agents -> VoteOutcomes] : GatedToolCall(tool, votes)
  \/ \E tool \in AgentTools : AgentToolCall(tool)
  \/ ToolReturn
QuorumSpecInit == GatewayIdle /\ MonitorInit /\ QuorumInit /\ CorrelatorInit /\ AgentIdle /\ TunerIdle /\ IntervalIdle /\ ConfigInit /\ DrainInit /\ ClassifierInit /\ RateLimitInit /\ ApprovalsIdle /\ ConcurrentIdle /\ TimerIdle /\ DispatchIdle /\ LifecycleIdle /\ LoopInit
QuorumStep == QuorumNext /\ UNCHANGED <<gwvars, monvars, corrvars, agentvars, tunervars, intervalvars, cfgvars, drainvars, clsvars, rlvars, apprvars, concvars, timervars, dispvars, lifevars, loopvars>>
QuorumSpec == QuorumSpecInit /\ [][QuorumStep]_vars

CorrelatorSpecInit == GatewayIdle /\ MonitorInit /\ QuorumIdle /\ CorrelatorInit /\ AgentIdle /\ TunerIdle /\ IntervalIdle /\ ConfigInit /\ DrainInit /\ ClassifierInit /\ RateLimitInit /\ ApprovalsIdle /\ ConcurrentIdle /\ TimerIdle /\ DispatchIdle /\ LifecycleIdle /\ LoopInit
CorrelatorStep == CorrelatorNext /\ UNCHANGED <<gwRest, monvars, qvars, agentvars, tunervars, intervalvars, cfgvars, drainvars, clsvars, rlvars, apprvars, concvars, timervars, dispvars, lifevars, loopvars>>
CorrelatorSpec == CorrelatorSpecInit /\ [][CorrelatorStep]_vars

AgentSpecInit == GatewayIdle /\ MonitorInit /\ QuorumIdle /\ CorrelatorInit /\ AgentInit /\ TunerIdle /\ IntervalIdle /\ ConfigInit /\ DrainInit /\ ClassifierInit /\ RateLimitInit /\ ApprovalsIdle /\ ConcurrentIdle /\ TimerIdle /\ DispatchIdle /\ LifecycleIdle /\ LoopInit
AgentStep == AgentNext /\ UNCHANGED <<monvars, qvars, corrvars, tunervars, intervalvars, cfgvars, drainvars, clsvars, rlvars, apprvars, concvars, timervars, dispvars, lifevars, loopvars>>
AgentSpec == AgentSpecInit /\ [][AgentStep]_vars

\* the self-tuner with the shared Redis client available or not
TunerSpecInit == GatewayInit /\ require_approval_for = DefaultApproval /\ max_actions = MaxBudget /\ MonitorInit /\ QuorumIdle /\ CorrelatorInit /\ AgentIdle /\ TunerInit /\ IntervalIdle /\ ConfigInit /\ DrainInit /\ ClassifierInit /\ RateLimitInit /\ ApprovalsIdle /\ ConcurrentIdle /\ TimerIdle /\ DispatchIdle /\ LifecycleIdle /\ LoopInit
TunerStep == TunerNext /\ UNCHANGED <<monvars, qvars, corrvars, agentvars, intervalvars, cfgvars, drainvars, clsvars, rlvars, apprvars, concvars, timervars, dispvars, lifevars, loopvars>>
TunerSpec == TunerSpecInit /\ [][TunerStep]_vars

\* the fast loop's interval tuning, with the shared Redis client available
\* or not
IntervalSpecInit == GatewayInit /\ require_approval_for = DefaultApproval /\ max_actions = MaxBudget /\ MonitorInit /\ QuorumIdle /\ CorrelatorInit /\ AgentIdle /\ IntervalTunerInit /\ ConfigInit /\ DrainInit /\ ClassifierInit /\ RateLimitInit /\ ApprovalsIdle /\ ConcurrentIdle /\ TimerIdle /\ DispatchIdle /\ LifecycleIdle /\ LoopInit
IntervalStep == IntervalNext /\ UNCHANGED <<monvars, qvars, corrvars, agentvars, cfgvars, drainvars, clsvars, rlvars, apprvars, concvars, timervars, dispvars, lifevars, loopvars>>
IntervalSpec == IntervalSpecInit /\ [][IntervalStep]_vars

\* the config store over a connected Redis
ConfigSpecInit == GatewayInit /\ redis_available /\ require_approval_for = DefaultApproval /\ max_actions = MaxBudget /\ MonitorInit /\ QuorumIdle /\ CorrelatorInit /\ AgentIdle /\ TunerIdle /\ IntervalIdle /\ ConfigInit /\ DrainInit /\ ClassifierInit /\ RateLimitInit /\ ApprovalsIdle /\ ConcurrentIdle /\ TimerIdle /\ DispatchIdle /\ LifecycleIdle /\ LoopInit
ConfigStep == ConfigNext /\ UNCHANGED <<monvars, qvars, corrvars, agentvars, tunervars, intervalvars, drainvars, clsvars, rlvars, apprvars, concvars, timervars, dispvars, lifevars, loopvars>>
ConfigSpec == ConfigSpecInit /\ [][ConfigStep]_vars

\* drain_node calls against nodes of every pod mix, without Redis
DrainSpecInit == GatewayInit /\ ~redis_available /\ MonitorInit /\ QuorumIdle /\ CorrelatorInit /\ AgentIdle /\ TunerIdle /\ IntervalIdle /\ ConfigInit /\ DrainInit /\ ClassifierInit /\ RateLimitInit /\ ApprovalsIdle /\ ConcurrentIdle /\ TimerIdle /\ DispatchIdle /\ LifecycleIdle /\ LoopInit
DrainStep == DrainNext /\ UNCHANGED <<monvars, qvars, corrvars, agentvars, tunervars, intervalvars, cfgvars, clsvars, rlvars, apprvars, concvars, timervars, dispvars, lifevars, loopvars>>
DrainSpec == DrainSpecInit /\ [][DrainStep]_vars

\* the escalation classifier over a stream of signals
ClassifierSpecInit == GatewayInit /\ ~redis_available /\ require_approval_for = DefaultApproval /\ max_actions = MaxBudget /\ MonitorInit /\ QuorumIdle /\ CorrelatorInit /\ AgentIdle /\ TunerIdle /\ IntervalIdle /\ ConfigInit /\ DrainInit /\ ClassifierInit /\ RateLimitInit /\ ApprovalsIdle /\ ConcurrentIdle /\ TimerIdle /\ DispatchIdle /\ LifecycleIdle /\ LoopInit
ClassifierStep == ClassifierNext /\ UNCHANGED <<gwvars, monvars, qvars, corrvars, agentvars, tunervars, intervalvars, cfgvars, drainvars, rlvars, apprvars, concvars, timervars, dispvars, lifevars, loopvars>>
ClassifierSpec == ClassifierSpecInit /\ [][ClassifierStep]_vars

\* the audit log on its own, with and without Redis
AuditSpecInit == GatewayInit /\ require_approval_for = DefaultApproval /\ max_actions = MaxBudget /\ MonitorInit /\ QuorumIdle /\ CorrelatorInit /\ AgentIdle /\ TunerIdle /\ IntervalIdle /\ ConfigInit /\ DrainInit /\ ClassifierInit /\ RateLimitInit /\ ApprovalsIdle /\ ConcurrentIdle /\ TimerIdle /\ DispatchIdle /\ LifecycleIdle /\ LoopInit
AuditStep == AuditNext /\ UNCHANGED <<monvars, qvars, corrvars, agentvars, tunervars, intervalvars, cfgvars, drainvars, clsvars, rlvars, apprvars, concvars, timervars, dispvars, lifevars, loopvars>>
AuditSpec == AuditSpecInit /\ [][AuditStep]_vars

\* restart_pod under the rate limiter, with and without Redis
RateLimitSpecInit == GatewayInit /\ MonitorInit /\ QuorumIdle /\ CorrelatorInit /\ AgentIdle /\ TunerIdle /\ IntervalIdle /\ ConfigInit /\ DrainInit /\ ClassifierInit /\ RateLimitInit /\ ApprovalsIdle /\ ConcurrentIdle /\ TimerIdle /\ DispatchIdle /\ LifecycleIdle /\ LoopInit
RateLimitStep == RateLimitNext /\ UNCHANGED <<monvars, qvars, corrvars, agentvars, tunervars, intervalvars, cfgvars, drainvars, clsvars, apprvars, concvars, timervars, dispvars, lifevars, loopvars>>
RateLimitSpec == RateLimitSpecInit /\ [][RateLimitStep]_vars

\* the approvals API over approvals persisted in Redis
ApprovalsSpecInit == ApprovalsInit /\ MonitorInit /\ QuorumIdle /\ CorrelatorInit /\ AgentIdle /\ TunerIdle /\ IntervalIdle /\ ConfigInit /\ DrainInit /\ ClassifierInit /\ RateLimitInit /\ ConcurrentIdle /\ TimerIdle /\ DispatchIdle /\ LifecycleIdle /\ LoopInit
ApprovalsStep == ApprovalsNext /\ UNCHANGED <<monvars, qvars, corrvars, agentvars, tunervars, intervalvars, cfgvars, drainvars, clsvars, rlvars, concvars, timervars, dispvars, lifevars, loopvars>>
ApprovalsSpec == ApprovalsSpecInit /\ [][ApprovalsStep]_vars

\* the correlator on a running event loop: the clock advances and a debounce
\* sleep that has ended resumes; whether Alertmanager posts again is not
\* up to the program
CorrelatorFairSpec ==
  /\ CorrelatorSpec
  /\ WF_vars(CorrTick /\ UNCHANGED <<gwRest, monvars, qvars, agentvars, tunervars, intervalvars, cfgvars, drainvars, clsvars, rlvars, apprvars, concvars, timervars, dispvars, lifevars, loopvars>>)
  /\ WF_vars((\E key \in {_correlation_key(a) : a \in Alerts} : DebounceFire(key)) /\ UNCHANGED <<gwRest, monvars, qvars, agentvars, tunervars, intervalvars, cfgvars, drainvars, clsvars, rlvars, apprvars, concvars, timervars, dispvars, lifevars, loopvars>>)

\* the monitor with its tasks running (start): the clock advances and the
\* dispatcher takes its turns; cleanup_stale_keys is called by none of the
\* tasks, so nothing obliges it to run
MonitorFairSpec ==
  /\ MonitorSpec
  /\ WF_vars(MonitorTick /\ UNCHANGED <<gwRest, qvars, corrvars, agentvars, tunervars, intervalvars, cfgvars, drainvars, clsvars, rlvars, apprvars, concvars, timervars, dispvars, lifevars, loopvars>>)
  /\ WF_vars(DispatcherGet /\ UNCHANGED <<gwRest, qvars, corrvars, agentvars, tunervars, intervalvars, cfgvars, drainvars, clsvars, rlvars, apprvars, concvars, timervars, dispvars, lifevars, loopvars>>)
  /\ WF_vars(DispatcherTimeout /\ UNCHANGED <<gwRest, qvars, corrvars, agentvars, tunervars, intervalvars, cfgvars, drainvars, clsvars, rlvars, apprvars, concvars, timervars, dispvars, lifevars, loopvars>>)

\* two investigations calling restart_pod on one event loop
ConcurrentSpecInit == GatewayInit /\ require_approval_for = DefaultApproval /\ MonitorInit /\ QuorumIdle /\ CorrelatorInit /\ AgentIdle /\ TunerIdle /\ IntervalIdle /\ ConfigInit /\ DrainInit /\ ClassifierInit /\ RateLimitInit /\ ApprovalsIdle /\ ConcurrentIdle /\ TimerIdle /\ DispatchIdle /\ LifecycleIdle /\ LoopInit
ConcurrentStep == ConcurrentNext /\ UNCHANGED <<monvars, qvars, corrvars, agentvars, tunervars, intervalvars, cfgvars, drainvars, clsvars, apprvars, rlvars, timervars, dispvars, lifevars, loopvars>>
ConcurrentSpec == ConcurrentSpecInit /\ [][ConcurrentStep]_vars

\* the correlator with its debounce tasks and running callbacks
TimerSpecInit == GatewayIdle /\ MonitorInit /\ QuorumIdle /\ CorrelatorInit /\ AgentIdle /\ TunerIdle /\ IntervalIdle /\ ConfigInit /\ DrainInit /\ ClassifierInit /\ RateLimitInit /\ ApprovalsIdle /\ ConcurrentIdle /\ TimerIdle /\ DispatchIdle /\ LifecycleIdle /\ LoopInit
TimerStep == TimerNext /\ UNCHANGED <<gwRest, monvars, qvars, agentvars, tunervars, intervalvars, cfgvars, drainvars, clsvars, rlvars, apprvars, concvars, dispvars, lifevars, loopvars>>
TimerSpec == TimerSpecInit /\ [][TimerStep]_vars

\* the dispatcher's _dispatch_batch with a dev controller configured, and
\* the investigations it and the API start
DispatchSpecInit == GatewayInit /\ require_approval_for = DefaultApproval /\ max_actions = MaxBudget /\ MonitorInit /\ QuorumIdle /\ CorrelatorInit /\ AgentIdle /\ TunerInit /\ _dev_controller /\ IntervalIdle /\ ConfigInit /\ DrainInit /\ ClassifierInit /\ RateLimitInit /\ ApprovalsIdle /\ ConcurrentIdle /\ TimerIdle /\ DispatchIdle /\ LifecycleIdle /\ LoopInit
DispatchStep == DispatchNext /\ UNCHANGED <<monvars, qvars, corrvars, agentvars, intervalvars, cfgvars, drainvars, rlvars, apprvars, concvars, timervars, lifevars, loopvars>>
DispatchSpec == DispatchSpecInit /\ [][DispatchStep]_vars

\* the monitor's start, stop and tasks; with the event loop's fairness
LifecycleSpecInit == GatewayInit /\ require_approval_for = DefaultApproval /\ max_actions = MaxBudget /\ MonitorInit /\ QuorumIdle /\ CorrelatorInit /\ AgentIdle /\ TunerIdle /\ IntervalIdle /\ ConfigInit /\ DrainInit /\ ClassifierInit /\ RateLimitInit /\ ApprovalsIdle /\ ConcurrentIdle /\ TimerIdle /\ DispatchIdle /\ LifecycleInit /\ LoopInit
lifeRest == <<monvars, qvars, corrvars, agentvars, intervalvars, cfgvars, drainvars, rlvars, apprvars, concvars, timervars, gwvars, tunervars, clsvars, dispvars, loopvars>>
LifecycleStep == LifecycleNext /\ UNCHANGED lifeRest
LifecycleSpec == LifecycleSpecInit /\ [][LifecycleStep]_vars
\* the event loop runs the ready tasks in turn: a task that is ready every
\* time the loop is free is run
LifecycleFairness ==
  /\ SF_vars((\E n \in 0..1 : FastStep(n)) /\ UNCHANGED lifeRest)
  /\ SF_vars((\E flush \in BOOLEAN : DispatcherStep(flush)) /\ UNCHANGED lifeRest)
  /\ SF_vars(WatcherStep /\ UNCHANGED lifeRest)
  /\ WF_vars(StopReturns /\ UNCHANGED lifeRest)
LifecycleFairSpec == LifecycleSpec /\ LifecycleFairness

\* the dispatcher's loop of a started monitor; time passes and the event
\* loop runs the dispatcher if it is ready every time the loop is free
DispatcherLoopSpecInit == GatewayInit /\ require_approval_for = DefaultApproval /\ max_actions = MaxBudget /\ MonitorInit /\ QuorumIdle /\ CorrelatorInit /\ AgentIdle /\ TunerIdle /\ IntervalIdle /\ ConfigInit /\ DrainInit /\ ClassifierInit /\ RateLimitInit /\ ApprovalsIdle /\ ConcurrentIdle /\ TimerIdle /\ DispatchIdle /\ MonitorStarted /\ LoopInit
loopRest == <<monvars, qvars, corrvars, agentvars, intervalvars, cfgvars, drainvars, rlvars, apprvars, concvars, timervars, gwvars, tunervars, clsvars, dispvars>>
DispatcherLoopStep == LoopNext /\ UNCHANGED loopRest
DispatcherLoopSpec == DispatcherLoopSpecInit /\ [][DispatcherLoopStep]_vars
DispatcherLoopFairness ==
  /\ WF_vars(Elapse /\ UNCHANGED loopRest)
  /\ SF_vars(LoopGet /\ UNCHANGED loopRest)
  /\ SF_vars(LoopTimeout /\ UNCHANGED loopRest)
  /\ SF_vars(LoopDispatchReturns /\ UNCHANGED loopRest)
DispatcherLoopFairSpec == DispatcherLoopSpec /\ DispatcherLoopFairness

\* ------------------------------------------------------------------------
\* Action Gateway: properties
\* ------------------------------------------------------------------------
\* the approval check of the operation would reject this call
ApprovalRequired(op, replicas) ==
  \/ op \in {"delete_pvc", "cordon_node", "drain_node"} /\ op \in require_approval_for
  \/ op = "scale_deployment" /\ replicas = 0 /\ "scale_to_zero" \in require_approval_for

\* the audit entries with a counted result whose timestamp lies in [t, t + W)
RecordsInWindow(t) == {i \in DOMAIN entries : entries[i].result \in {"success", "failed"} /\ t <= entries[i].timestamp /\ entries[i].timestamp < t + window_seconds}

\* the newest audit entry is the record of the last call with this result
LastEntryIs(result) ==
  /\ entries # <<>>
  /\ entries[Len(entries)].action = lastResult.op
  /\ entries[Len(entries)].target = lastResult.name
  /\ entries[Len(entries)].namespace = lastResult.namespace
  /\ entries[Len(entries)].result = result

\* C1: a namespaced write operation on a protected namespace returns
\* success=false with the 'protected' error and makes no orchestrator API
\* call, and no audit entry of a namespaced operation carries a protected
\* namespace.
C1_ProtectedNamespaceRejected ==
  /\ (lastResult.op \in NamespacedOps /\ lastResult.namespace \in protected_namespaces) => (~lastResult.success /\ lastResult.error = "protected" /\ lastResult.api_calls = 0)
  /\ \A i \in DOMAIN entries : entries[i].action \in NamespacedOps => entries[i].namespace \notin protected_namespaces

\* C1 witness: a call on a protected namespace was rejected while the audit
\* log already holds records of executed operations
C1_Witness ==
  /\ lastResult.op \in NamespacedOps
  /\ lastResult.namespace \in protected_namespaces
  /\ lastResult.error = "protected"
  /\ entries # <<>>

\* C2 (as claimed): in every window of length W the audit entries with
\* result success or failed number at most the configured maximum (read
\* here as the largest maximum that can be configured).
C2_WindowBound == \A t \in 0..MaxTime : Cardinality(RecordsInWindow(t)) <= MaxBudget

\* C3 (as claimed): the checks apply in the order namespace, approval,
\* rate limit: a rate-limit rejection is returned only to a call the
\* approval check lets through, and an approval or rate-limit rejection
\* only to a call outside the protected namespaces.
C3_PipelineOrder ==
  /\ lastResult.error = "rate_limit" => ~ApprovalRequired(lastResult.op, lastResult.replicas)
  /\ lastResult.error \in {"approval", "rate_limit"} => lastResult.namespace \notin protected_namespaces

\* C4 (as claimed, with scale_to_zero in the approval set): scale_deployment
\* to 0 replicas outside the protected namespaces returns success=false with
\* requires_approval=true and patches nothing, whatever the rate budget.
C4_ScaleToZeroNeedsApproval ==
  (lastResult.op = "scale_deployment" /\ lastResult.replicas = 0 /\ lastResult.namespace \notin protected_namespaces /\ "scale_to_zero" \in require_approval_for) => (~lastResult.success /\ lastResult.requires_approval /\ lastResult.api_calls = 0)

\* C5 (as claimed): a call rejected with requires_approval=true leaves a
\* PendingApproval with status pending for that action and target.
C5_PendingApprovalRecorded ==
  lastResult.requires_approval => \E i \in DOMAIN pending_approvals : pending_approvals[i].status = "pending" /\ pending_approvals[i].action = lastResult.op /\ pending_approvals[i].target = lastResult.name

\* C6 (as claimed, for the approval and rate-limit checks): a call stopped
\* by a policy check appends an audit entry with result=blocked for that
\* action and target.
C6_BlockedRecorded ==
  lastResult.error \in {"approval", "rate_limit"} => LastEntryIs("blocked")

\* C7 (as claimed): a call whose orchestrator API call raised an API error
\* returns success=false and appends an audit entry with result=failed for
\* that action and target.
C7_ApiErrorRecorded ==
  lastResult.error = "api_error" => (~lastResult.success /\ LastEntryIs("failed"))


\* ------------------------------------------------------------------------
\* Continuous Monitor: properties
\* ------------------------------------------------------------------------
\* every signal handed to _dispatch_batch so far, in dispatch order
RECURSIVE Flatten(_)
Flatten(bs) == IF bs = <<>> THEN <<>> ELSE Head(bs).signals \o Flatten(Tail(bs))
DispatchedSignals == Flatten(broadcasts)
InvestigatedSignals == Flatten(investigations)

FarApart(sigs) == \A i, j \in DOMAIN sigs : (i < j /\ sigs[i].dedupe_key = sigs[j].dedupe_key) => sigs[j].arrived - sigs[i].arrived >= anomaly_suppression_window

\* C8: two signals with the same dedupe key that reached the dispatcher
\* less than the suppression window apart are never both dispatched: not
\* both batched, not both in anomaly_detected broadcasts, not both in
\* investigations.
C8_NoDuplicateDispatch ==
  /\ FarApart(DispatchedSignals \o batch)
  /\ FarApart(InvestigatedSignals)

\* C8 witness: a signal was suppressed, and the same key was dispatched
\* twice, a suppression window or more apart
C8_Witness ==
  /\ suppressed_anomalies > 0
  /\ \E i, j \in DOMAIN DispatchedSignals : i < j /\ DispatchedSignals[i].dedupe_key = DispatchedSignals[j].dedupe_key

\* ------------------------------------------------------------------------
\* Quorum gate: properties
\* ------------------------------------------------------------------------
\* C9: when the quorum evaluation of a gated tool call is not approved
\* (in particular when no more than half of the valid votes approve), the
\* gated tool returns the 'BLOCKED by quorum' message and the wrapped
\* handler is not invoked.
C9_RejectedCallBlocked ==
  (lastTool.via = "quorum_gate" /\ (~lastQuorum.approved \/ lastQuorum.approve_count * 2 <= lastQuorum.valid)) => (lastTool.returned = "BLOCKED by quorum" /\ ~lastTool.executed)

\* C9 witness: three voters, two of them rejecting, and the gated call
\* was blocked
C9_Witness ==
  /\ lastTool.via = "quorum_gate"
  /\ lastQuorum.valid = 3
  /\ lastQuorum.approve_count = 1
  /\ lastTool.returned = "BLOCKED by quorum"

\* C10 (as claimed): with quorum enabled, the handler of a mutation tool of
\* the agent runs only after a quorum evaluation of that call approved it.
C10_AgentMutationsGated ==
  (quorum_enabled /\ lastTool.via = "agent" /\ lastTool.tool \in MutationTools /\ lastTool.executed) => (lastTool.evaluated /\ lastQuorum.approved)

\* C11 (as claimed): in the tally of an evaluation every voter is counted,
\* and a voter whose response was malformed, timed out or failed counts as
\* a reject: the approving votes are those of the voters that answered
\* with a well-formed approval.
C11_FailedVoterCountsAsReject ==
  lastTool.evaluated => (lastQuorum.valid = num_agents /\ lastQuorum.approve_count = lastVoters.approved)

\* ------------------------------------------------------------------------
\* Incident Correlator: properties
\* ------------------------------------------------------------------------
\* placements i < j of one key with nothing in between that touches the key
\* or the Incident of i, that Incident being one of the key itself
Consecutive(i, j) ==
  /\ i < j
  /\ placements[i].key = placements[j].key
  /\ placements[i].incident[1] = placements[i].key
  /\ \A l \in DOMAIN placements : (i < l /\ l < j) => (placements[l].key # placements[i].key /\ placements[l].incident # placements[i].incident)

\* C12 (as claimed): two alerts with the same correlation key share an
\* Incident if they arrive less than the correlation window apart, and are
\* in different Incidents if they arrive more than the window apart.
C12_WindowDecidesIncident ==
  \A i, j \in DOMAIN placements : (i < j /\ placements[i].key = placements[j].key) =>
    /\ placements[j].at - placements[i].at < correlation_window_seconds => placements[j].incident = placements[i].incident
    /\ placements[j].at - placements[i].at > correlation_window_seconds => placements[j].incident # placements[i].incident

\* C12 (amended): an alert joins the Incident of the preceding alert of its
\* key, that Incident being registered under the key, exactly when it
\* arrives less than the correlation window after the last alert placed in
\* that Incident; the window slides with every alert placed.
C12_SlidingWindowDecidesIncident ==
  \A i, j \in DOMAIN placements : Consecutive(i, j) =>
    (placements[j].at - placements[i].at < correlation_window_seconds <=> placements[j].incident = placements[i].incident)

\* C12 witness: three alerts of one key; the second joined the Incident of
\* the first, the third came a window or more after the second and did not
C12_Witness ==
  \E i, j, l \in DOMAIN placements : Consecutive(i, j) /\ Consecutive(j, l) /\ placements[j].incident = placements[i].incident /\ placements[l].incident # placements[j].incident

\* C13 (as claimed): an Incident fires the investigation callback at most
\* once, and no alert is placed in an Incident after it was investigated.
C13_InvestigatedIncidentIsClosed ==
  /\ \A a, b \in DOMAIN fired : fired[a].incident = fired[b].incident => a = b
  /\ \A a \in DOMAIN fired : \A i \in DOMAIN placements : i > fired[a].seen => placements[i].incident # fired[a].incident

\* the alerts placed in the Incident of a callback before it fired
PlacedBefore(f) == {i \in DOMAIN placements : i <= f.seen /\ placements[i].incident = f.incident}

InvestigationReturned == agent_pc = "returned" /\ lastRun.kind = "investigate"

\* C15: every investigation whose LLM calls all answered ends with a text
\* closure - its last turn is an LLM turn without tool calls, either a turn
\* of the LLM with tools or the summarize turn of the LLM without tools at
\* iteration max_agent_iterations - 1 - and as a completed investigation;
\* the tools node never runs after a summarize turn
C15_LoopEndsWithTextClosure ==
  (InvestigationReturned /\ lastRun.raised # "llm") =>
    /\ lastRun.success
    /\ lastRun.closure \in {"text", "summarize"}
    /\ last_message.kind = "ai" /\ last_message.tool_call = NoCall
    /\ \A i \in DOMAIN executed : ~executed[i].after_summarize

\* C16: every returned investigation with success = true carries a
\* non-empty summary, and every one with success = false carries a
\* non-empty error
C16_ResultCarriesSummaryOrError ==
  InvestigationReturned =>
    IF lastRun.success THEN lastRun.summary # ""
    ELSE lastRun.has_error /\ lastRun.error # ""

\* the positions of the broadcast messages of one type
Broadcasts(type) == {i \in DOMAIN ws_messages : ws_messages[i].type = type}

\* C17: a returned investigation has broadcast investigation_started and,
\* after it, exactly one investigation_completed, and its result carries
\* the investigation_id
C17_InvestigationLifecycleBroadcast ==
  InvestigationReturned =>
    /\ lastRun.has_id
    /\ Cardinality(Broadcasts("investigation_completed")) = 1
    /\ \E i \in Broadcasts("investigation_started") : \A j \in Broadcasts("investigation_completed") : i < j

\* C18: no tool call of a scan or an investigation carries out a mutation
\* at a time inside the quiet-hours window
C18_QuietHoursReadOnly == \A i \in DOMAIN executed : executed[i].quiet => ~executed[i].mutated

\* ------------------------------------------------------------------------
\* Self-Tuner: properties
\* ------------------------------------------------------------------------
\* C19: while a pattern key has only been recorded with success = true, up
\* to escalation_threshold times, auto_escalate is called on the recording
\* that brings the count to the threshold and on no other; a recording with
\* success = false never calls it
C19_EscalatesOnceAtThreshold ==
  \A k \in PatternKeys : \A i \in DOMAIN recordings[k] :
    /\ ~recordings[k][i].success => ~recordings[k][i].called
    /\ ((\A j \in 1..i : recordings[k][j].success) /\ i <= escalation_threshold) => (recordings[k][i].called <=> i = escalation_threshold)

\* a key recorded escalation_threshold times with success = true, and then
\* once with success = false
C19_Witness ==
  \E k \in PatternKeys :
    /\ Len(recordings[k]) > escalation_threshold
    /\ \A j \in 1..escalation_threshold : recordings[k][j].success
    /\ recordings[k][escalation_threshold].called
    /\ ~recordings[k][escalation_threshold + 1].success /\ ~recordings[k][escalation_threshold + 1].called

\* C20: two goals submitted for the same pattern key are at least
\* ESCALATION_COOLDOWN apart
C20_OneGoalPerCooldown ==
  \A i, j \in DOMAIN goals : (i < j /\ goals[i].key = goals[j].key) => goals[j].at - goals[i].at >= ESCALATION_COOLDOWN

\* ------------------------------------------------------------------------
\* Fast-loop interval: properties
\* ------------------------------------------------------------------------
\* C21: after a tune_intervals call the fast_loop_interval_seconds value
\* the config store hands out lies within [15, 60]
C21_IntervalWithinBounds == lastTune # NoTune => (15 <= lastTune.after /\ lastTune.after <= 60)

\* C22: tune_intervals raises the interval by 10 when no issue is recent,
\* lowers it by 5 when more than 5 are, and sets 30 otherwise; an issue
\* last recorded a cool-down (24 h) or longer ago is not recent
C22_TunesByRecentVolume ==
  lastTune # NoTune =>
    /\ lastTune.branch = "stable" => lastTune.new = Min(lastTune.before + 10, 60)
    /\ lastTune.branch = "active" => lastTune.new = Max(lastTune.before - 5, 15)
    /\ lastTune.branch = "default" => lastTune.new = 30
    /\ (lastTune.last_issue_at = -1 \/ lastTune.at - lastTune.last_issue_at >= ESCALATION_COOLDOWN) => lastTune.branch = "stable"

\* ------------------------------------------------------------------------
\* Config store: properties
\* ------------------------------------------------------------------------
\* C23: a get that reads the override of a key from Redis returns the value
\* the last successful set of that key stored
C23_SetGetRoundTrip ==
  (lastConfig.op = "get" /\ last_set[lastConfig.key] # NoValue /\ config_hash[lastConfig.key] # NoRaw /\ redis_available) =>
    (lastConfig.from_redis => lastConfig.value = last_set[lastConfig.key])

\* ------------------------------------------------------------------------
\* drain_node: properties
\* ------------------------------------------------------------------------
EvictionCalls == {i \in DOMAIN lastDrain.calls : lastDrain.calls[i].api = "create_namespaced_pod_eviction"}
Evictable == {p \in PodsOf(lastDrain.items) : p.namespace \notin protected_namespaces /\ ~p.daemonset}

\* C24: drain_node cordons the node before any eviction, issues an eviction
\* for exactly the pods of the node that are neither in a protected
\* namespace nor owned by a DaemonSet, and returns every other pod in the
\* skipped list with a reason
C24_DrainCordonsThenEvictsUnprotected ==
  lastDrain.ran =>
    /\ \A i \in EvictionCalls : \E j \in 1..(i - 1) : lastDrain.calls[j].api = "patch_node"
    /\ lastResult.success =>
         /\ {lastDrain.calls[i].pod : i \in EvictionCalls} = Evictable
         /\ \A p \in PodsOf(lastDrain.items) \ Evictable :
              \E k \in DOMAIN lastDrain.skipped : lastDrain.skipped[k].pod = p /\ lastDrain.skipped[k].reason # ""

\* a drain of a node that runs a protected pod, a DaemonSet pod and a
\* workload pod
C24_Witness ==
  /\ lastDrain.ran /\ lastResult.success
  /\ Len(lastDrain.items) = 3
  /\ Len(lastDrain.evicted) = 1 /\ Len(lastDrain.skipped) = 2

\* ------------------------------------------------------------------------
\* Escalation classifier: properties
\* ------------------------------------------------------------------------
\* C25 as stated: classify returns long-term whenever the classifier's
\* internal count plus the external count of the dedupe key is at least the
\* recurring threshold
C25_SumOfCountsEscalates ==
  (lastClassify.called /\ lastClassify.internal + lastClassify.by_key >= escalation_threshold) => lastClassify.level = "long_term"

\* C25: classify returns long-term whenever the larger of the classifier's
\* internal count and the external count of the dedupe key is at least the
\* recurring threshold, whatever the source, the keywords and the severity
C25_LargerCountEscalates ==
  (lastClassify.called /\ Max(lastClassify.internal, lastClassify.by_key) >= escalation_threshold) => lastClassify.level = "long_term"

\* a recurring signal of a quick-fix source without long-term keyword
C25_Witness ==
  /\ lastClassify.called /\ lastClassify.internal >= escalation_threshold /\ lastClassify.by_key = 0
  /\ lastClassify.source \in QUICK_FIX_SOURCES /\ lastClassify.severity = "info"
  /\ lastClassify.level = "long_term"

\* ------------------------------------------------------------------------
\* Audit log: properties
\* ------------------------------------------------------------------------
\* C26: the in-memory audit log never holds more than AUDIT_LOG_MAX_LEN
\* records, and neither does the Redis list after an append
C26_AuditLogsBounded ==
  /\ Len(entries) <= AUDIT_LOG_MAX_LEN
  /\ Len(redis_audit) <= AUDIT_LOG_MAX_LEN

\* the Redis half alone: the list holds the newest AUDIT_LOG_MAX_LEN entries
AuditRedisBounded == Len(redis_audit) <= AUDIT_LOG_MAX_LEN

\* ------------------------------------------------------------------------
\* Rate-limit check: properties
\* ------------------------------------------------------------------------
\* C27: when Redis is unavailable or the read from it fails, can_act counts
\* the in-process deque: with the deque at the maximum the call is refused
\* for the rate limit
C27_FallsBackToLocalQueue ==
  (lastCheck.called /\ (~lastCheck.redis_available \/ lastCheck.rd # "ok") /\ lastCheck.local >= lastCheck.max_actions) =>
    (~lastCheck.can_act /\ (lastResult # NoResult => lastResult.error = "rate_limit"))

\* the unavailable half alone: without Redis the deque decides
RateLimitLocalWithoutRedis ==
  (lastCheck.called /\ ~lastCheck.redis_available) => (lastCheck.can_act <=> lastCheck.local < lastCheck.max_actions)

\* ------------------------------------------------------------------------
\* Approvals API: properties
\* ------------------------------------------------------------------------
\* C28: an approval is decided at most once: after the API accepted approve
\* or reject for it, every later approve or reject is refused
C28_DecisionIsTerminal == \A id \in ApprovalIds : Len(decisions[id]) <= 1

\* ------------------------------------------------------------------------
\* Correlator: expiry
\* ------------------------------------------------------------------------
\* the key is registered with an Incident whose last alert is older than
\* the expiry
IncidentExpired(key) == key \in DOMAIN _incidents /\ now - incident_heap[_incidents[key]].last_alert_at >= correlation_expiry_seconds

\* C29: an Incident whose last alert is older than the expiry is eventually
\* removed from the correlator
C29_ExpiredIncidentEventuallyRemoved ==
  \A key \in {_correlation_key(a) : a \in Alerts} : IncidentExpired(key) ~> ~IncidentExpired(key)

\* the safety half: no pending debounce task is kept for a key that is not
\* registered
NoTimerWithoutIncident == \A key \in DOMAIN _debounce_tasks : _debounce_tasks[key].status = "pending" => key \in DOMAIN _incidents

\* ------------------------------------------------------------------------
\* Monitor: purge of the dedupe map
\* ------------------------------------------------------------------------
\* the key was last seen more than two suppression windows ago
StaleKey(k) == k \in DOMAIN seen_keys /\ seen_keys[k] < now - anomaly_suppression_window * 2

\* C30: while the monitor runs, a dedupe key last seen more than two
\* suppression windows ago is eventually purged from the map
C30_StaleKeysEventuallyPurged == \A k \in DedupeKeys : StaleKey(k) ~> ~StaleKey(k)

\* ------------------------------------------------------------------------
\* Concurrent investigations: properties
\* ------------------------------------------------------------------------
\* C31: the audit entries of one target are in the order in which their
\* calls reached the orchestrator
C31_AuditInExecutionOrder ==
  \A i, j \in DOMAIN log_order :
    (i < j /\ orchestrator_calls[log_order[i]].target = orchestrator_calls[log_order[j]].target) => log_order[i] < log_order[j]

\* the same without Redis, where restart_pod never suspends
AuditInExecutionOrderNoRedis == ~redis_available => C31_AuditInExecutionOrder

\* the successful orchestrator calls inside the window that ends with call i
ExecutedInWindow(i) == {j \in DOMAIN orchestrator_calls : orchestrator_calls[j].success /\ orchestrator_calls[j].at <= orchestrator_calls[i].at /\ orchestrator_calls[i].at - orchestrator_calls[j].at < window_seconds}

\* C36: with investigations calling concurrently, the mutations executed
\* within one rate-limit window never exceed max_actions
C36_ConcurrentCallsWithinBudget == \A i \in DOMAIN orchestrator_calls : Cardinality(ExecutedInWindow(i)) <= max_actions

\* the same without Redis, where check and record run without suspension
WithinBudgetNoRedis == ~redis_available => C36_ConcurrentCallsWithinBudget

\* ------------------------------------------------------------------------
\* Debounce tasks: properties
\* ------------------------------------------------------------------------
PendingTasksOf(id) == {i \in DOMAIN created_tasks : created_tasks[i].incident = id /\ created_tasks[i].status = "pending"}

\* C32: at most one debounce task is pending for each Incident
C32_OnePendingTimerPerIncident == \A i \in DOMAIN created_tasks : Cardinality(PendingTasksOf(created_tasks[i].incident)) <= 1

\* an Incident with a cancelled timer and the pending one that replaced it
C32_Witness ==
  \E i, j \in DOMAIN created_tasks :
    /\ i < j /\ created_tasks[i].incident = created_tasks[j].incident
    /\ created_tasks[i].status = "cancelled" /\ created_tasks[j].status = "pending"

\* C37: an alert that arrives while the investigation callback of an
\* Incident is running does not abort the running investigation
C37_RunningInvestigationNotCancelled == \A i \in DOMAIN created_tasks : created_tasks[i].status # "aborted"

\* ------------------------------------------------------------------------
\* Dispatch: properties
\* ------------------------------------------------------------------------
\* C33: every dispatched group is handed to the agent or a goal for it is
\* submitted to the long-term pipeline
C33_DispatchedGroupInvestigatedOrEscalated == \A i \in DOMAIN dispatched : dispatched[i].investigation \/ dispatched[i].goal


\* the severity of a level: long-term over quick-fix over observe-only
Severity(level) == CASE level = "long_term" -> 3 [] level = "quick_fix" -> 2 [] level = "observation_only" -> 1 [] OTHER -> 0

\* C40: the level of a dispatched group is the most severe of the levels of
\* its signals
C40_GroupLevelIsMostSevere ==
  \A i \in DOMAIN dispatched : \A j \in DOMAIN dispatched[i].levels : Severity(dispatched[i].level) >= Severity(dispatched[i].levels[j])

\* C38: no two investigations running at the same time have the same
\* thread id
C38_RunningInvestigationsDistinctThreads ==
  \A r1 \in running : \A r2 \in running : r1 # r2 => r1.thread_id # r2.thread_id


\* ------------------------------------------------------------------------
\* Monitor lifecycle: properties
\* ------------------------------------------------------------------------
NoTaskRunning == \A t \in TaskNames : task_state[t].pc \in {"absent", "done"}

\* C34: once stop() has cancelled the tasks each of them exits and stop()
\* returns, and when it has returned no monitor task is running
C34_StopReleasesTasks == [](stop_pc = "returned" => NoTaskRunning) /\ ((stop_pc = "gather") ~> (stop_pc = "returned"))

\* stop() has returned after the three tasks saw the cancellation
C34_Witness == stop_pc = "returned" /\ \A t \in TaskNames : task_state[t].how = "cancelled"

\* C35: as long as the monitor is running the fast loop and the dispatcher
\* run again and again
C35_FastLoopAndDispatcherKeepRunning == []<>(~_running \/ last_ran = "fast") /\ []<>(~_running \/ last_ran = "dispatcher")

\* without the event watcher they do
KeepRunningWithoutWatcher == []<>(_event_watch_enabled \/ ~_running \/ last_ran = "fast") /\ []<>(_event_watch_enabled \/ ~_running \/ last_ran = "dispatcher")


\* ------------------------------------------------------------------------
\* Dispatcher loop: properties
\* ------------------------------------------------------------------------
\* C39: a signal that passed the dedupe check is in a batch handed to
\* _dispatch_batch at some later time, whatever arrives meanwhile
C39_PassedSignalEventuallyDispatched ==
  \A k \in LoopKeys : InSeq(k, loop_batch) ~> (loop_pc = "dispatch" /\ InSeq(k, handed))

\* without the event watcher it is
DispatchedWithoutWatcher ==
  \A k \in LoopKeys : (~_event_watch_enabled /\ InSeq(k, loop_batch)) ~> (loop_pc = "dispatch" /\ InSeq(k, handed))

====
